---- MODULE Spec2Model ----
(***************************************************************************)
(* A model of the poker-equity program: the bit-packed card algebra        *)
(* (cards.rs), the 5-to-7 card hand evaluator (cards.rs), the range table  *)
(* (range.rs) and the exact equity enumerator (equity.rs).                 *)
(*                                                                         *)
(* Machine words are modelled by their bits: a u64 or i16 mask is the set  *)
(* of the positions of its one-bits, so that AND, OR, NOT and the shifts   *)
(* are set operations on positions.  A u32 Score is kept as the pair       *)
(* <<hi, lo>> of its upper 12 bits and its lower 20 bits (value            *)
(* hi * 2^20 + lo), compared as the unsigned integer it stands for.        *)
(***************************************************************************)
EXTENDS Integers, Sequences, FiniteSets, TLC

VARIABLES
    \* calls of the evaluator: the card sets handed to it and what it returned
    handA, handB, scoreA, scoreB, topA, topB, evalPc,
    \* a call of CardsByRank::straight: the 13-bit rank mask and the result
    rankMask, rankStraight, rankPc,
    \* a Cards value under a sequence of card-set operations
    mask, maskCards, maskOps,
    \* EquityCalculator fields (equity.rs 156-166) and its control position
    known_cards, hero_cards, visited_community_cards, community_cards,
    villain_ranges, hand_ranking_scores, total, wins, ties, frames, calcPc,
    \* the community cards Equity::calc or Equity::simulate was called with
    arg_community_cards,
    \* Equity::simulate: its Deck, its rounds argument and the rounds done; its
    \* locals total, scores, wins, ties and community_cards are held in total,
    \* hand_ranking_scores, wins, ties and community_cards
    deck, rounds, round,
    \* what Equity::calc or Equity::simulate returned: the Vec<Equity> of Some,
    \* empty for None and before the return
    result,
    \* a history of Equity::calc, not a field of the program: the boards with
    \* which community_cards called players so far, in the order of the calls
    leaf_boards,
    \* RangeTable::parse: the string it was called with and what it returned
    range_str, parsed,
    \* a RangeTable and what for_each_hand, to_set, contains and count_cards
    \* returned on it
    rangeTable, rangeHands, rangeSet, rangeContained, rangeCount, rangePc,
    \* a Deck on its own: the cards excluded at construction, the cards its
    \* draws returned since the last reset, the last return value of draw or
    \* hand, and the number of operations so far
    excluded, returned, deckRet, deckOps,
    \* a call of try_u64_to_f64: its argument and what it returned
    conv_n, conv_ret, convPc,
    \* the static CARDS_SCORE_MAP, and the last call of init_score_map or of
    \* score_fast: its name, the cards of score_fast, the table entry it read,
    \* and whether it panicked (nothing runs after a panic)
    CARDS_SCORE_MAP, table_op, table_cards, table_score, table_panic,
    \* a call of counts_n_fast: the card set and the key it returned
    key_cards, key_n, keyPc

evalVars == << handA, handB, scoreA, scoreB, topA, topB, evalPc >>
rankVars == << rankMask, rankStraight, rankPc >>
maskVars == << mask, maskCards, maskOps >>
calcVars == << known_cards, hero_cards, visited_community_cards, community_cards,
               villain_ranges, hand_ranking_scores, total, wins, ties, frames, calcPc,
               arg_community_cards, deck, rounds, round, result, leaf_boards >>
rangeVars == << range_str, parsed, rangeTable, rangeHands, rangeSet, rangeContained,
                rangeCount, rangePc >>
deckVars == << excluded, returned, deckRet, deckOps >>
convVars == << conv_n, conv_ret, convPc >>
tableVars == << CARDS_SCORE_MAP, table_op, table_cards, table_score, table_panic >>
keyVars == << key_cards, key_n, keyPc >>
vars == << evalVars, rankVars, maskVars, calcVars, rangeVars, deckVars, convVars, tableVars, keyVars >>

----------------------------------------------------------------------------
(* Generic helpers *)

Max(S) == CHOOSE x \in S : \A y \in S : y <= x

Pow2(n) == 2 ^ n

\* Option::None for scalar options (Option<Card>, Option<Rank>)
None == -1

\* Option::None for set-valued options (Option<Cards>, Option<CardsByRank>)
NoneSet == {-1}

----------------------------------------------------------------------------
(* rank.rs, suite.rs *)

Two == 0
Three == 1
Four == 2
Five == 3
Six == 4
Seven == 5
Eight == 6
Nine == 7
Ten == 8
Jack == 9
Queen == 10
King == 11
Ace == 12

RankCOUNT == 13
RANKS == 0 .. (RankCOUNT - 1)

Diamonds == 0
Spades == 1
Hearts == 2
Clubs == 3

SuiteCOUNT == 4
SUITES == 0 .. (SuiteCOUNT - 1)

\* Rank::try_from(i8)
Rank_try_from(v) == IF v \in RANKS THEN v ELSE None

\* Suite::to_index
Suite_to_index(suite) == suite * 16

----------------------------------------------------------------------------
(* card.rs *)

MASK_SINGLE == 0 .. 12

MASK_FULL == { s * 16 + r : s \in 0 .. 3, r \in MASK_SINGLE }

U64Bits == 0 .. 63

Card_of(rank, suite) == Suite_to_index(suite) + rank

Card_rank(card) == card % 16

Card_suite(card) == card \div 16

Card_from_index(index) ==
    IF index < 0 \/ index > 63 THEN None
    ELSE IF index \notin MASK_FULL THEN None
    ELSE index

----------------------------------------------------------------------------
(* cards.rs: Cards, a u64 mask as the set of its one-bits *)

EMPTY == {}

leading_zeros64(bits) == IF bits = {} THEN 64 ELSE 63 - Max(bits)

first(cards) == Card_from_index(63 - leading_zeros64(cards))

has(cards, card) == card \in cards

BitAnd(a, b) == a \cap b

BitOr(a, b) == a \cup b

\* the complement without the mask of the 52 cards
NotUnmasked(a) == U64Bits \ a

Not(a) == (U64Bits \ a) \cap MASK_FULL

count(cards) == Cardinality(cards)

\* try_add: the new mask (the boolean result is ~has(cards, card))
try_add(cards, card) == IF has(cards, card) THEN cards ELSE cards \cup {card}

\* with: asserts ~has(cards, card)
with(cards, card) == cards \cup {card}

\* remove: asserts has(cards, card)
remove(cards, card) == cards \ {card}

\* from_slice over a duplicate-free slice
from_slice(s) == { s[i] : i \in DOMAIN s }

of_rank(rank) ==
    from_slice(<< Card_of(rank, Diamonds), Card_of(rank, Spades),
                  Card_of(rank, Hearts), Card_of(rank, Clubs) >>)

without_rank(cards, rank) == BitAnd(cards, Not(of_rank(rank)))

\* CardsIter: repeated first / remove, highest index first
RECURSIVE iter(_)
iter(cards) ==
    LET card == first(cards)
    IN  IF card = None THEN << >>
        ELSE << card >> \o iter(remove(cards, card))

RECURSIVE take_n(_, _)
take_n(cards, n) ==
    IF n = 0 THEN EMPTY
    ELSE LET card == first(cards)
         IN  IF card = None THEN EMPTY
             ELSE {card} \cup take_n(remove(cards, card), n - 1)

----------------------------------------------------------------------------
(* cards.rs: CardsByRank, an i16 mask as the set of its one-bits *)

WHEEL == {12, 0, 1, 2, 3}

STRAIGHT_SIX_HIGH == {0, 1, 2, 3, 4}

CardsByRank_from_cards(cards) == { b % 16 : b \in cards } \cap MASK_SINGLE

CardsByRank_from_cards_suite(cards, suite) ==
    { b - Suite_to_index(suite) : b \in { c \in cards : c >= Suite_to_index(suite) } }
        \cap MASK_SINGLE

by_rank(cards) == CardsByRank_from_cards(cards)

\* (self.0 as u64) << suite.to_index_u64(): the i16 is sign-extended first
CardsByRank_to_cards_suite(ranks, suite) ==
    LET ext == IF 15 \in ranks THEN ranks \cup (16 .. 63) ELSE ranks
    IN  { b + Suite_to_index(suite) : b \in ext } \cap U64Bits

leading_zeros16(ranks) == IF ranks = {} THEN 16 ELSE 15 - Max(ranks)

highest_rank(ranks) == Rank_try_from(15 - leading_zeros16(ranks))

\* Shl<i8> on the i16: bits shifted past bit 15 are lost
CardsByRank_shl(ranks, rhs) == { b + rhs : b \in ranks } \cap (0 .. 15)

RECURSIVE CardsByRank_iter(_)
CardsByRank_iter(ranks) ==
    LET rank == highest_rank(ranks)
    IN  IF rank = None THEN << >>
        ELSE << rank >> \o CardsByRank_iter(ranks \ {rank})

RECURSIVE straight_loop(_, _, _)
straight_loop(ranks, shift, best_cards) ==
    IF shift > 13 - 5 THEN best_cards
    ELSE LET straight == CardsByRank_shl(STRAIGHT_SIX_HIGH, shift)
         IN  straight_loop(ranks, shift + 1,
                 IF (ranks \cap straight) = straight THEN straight ELSE best_cards)

\* straight with the wheel test taking precedence over the loop
CardsByRank_straight_wheel_first(ranks) ==
    IF (ranks \cap WHEEL) = WHEEL THEN WHEEL ELSE straight_loop(ranks, 0, NoneSet)

CardsByRank_straight(ranks) ==
    straight_loop(ranks, 0,
        IF (ranks \cap WHEEL) = WHEEL THEN WHEEL ELSE NoneSet)

CardsByRank_count(ranks) == Cardinality(ranks)

RECURSIVE take_top_n(_, _)
take_top_n(ranks, n) ==
    IF n = 0 THEN {}
    ELSE LET rank == highest_rank(ranks)
         IN  IF rank = None THEN {}
             ELSE {rank} \cup take_top_n(ranks \ {rank}, n - 1)

----------------------------------------------------------------------------
(* cards.rs: HandRanking, Score, Top5 *)

HighCard == [tag |-> 0, first |-> 0, second |-> 0]
OnePair(pair_rank) == [tag |-> 1, first |-> pair_rank, second |-> 0]
TwoPair(first_rank, second_rank) == [tag |-> 2, first |-> first_rank, second |-> second_rank]
ThreeOfAKind(trips_rank) == [tag |-> 3, first |-> trips_rank, second |-> 0]
Straight == [tag |-> 4, first |-> 0, second |-> 0]
Flush == [tag |-> 5, first |-> 0, second |-> 0]
FullHouse(trips_rank, pair_rank) == [tag |-> 6, first |-> trips_rank, second |-> pair_rank]
FourOfAKind(quads_rank) == [tag |-> 7, first |-> quads_rank, second |-> 0]
StraightFlush == [tag |-> 8, first |-> 0, second |-> 0]
RoyalFlush == [tag |-> 9, first |-> 0, second |-> 0]

\* to_u16 without the ranks of the pairs, trips and quads
HandRanking_to_u16_category_only(ranking) == ranking.tag * 256

HandRanking_to_u16(ranking) ==
    CASE ranking.tag = 0 -> 0
      [] ranking.tag = 1 -> (1 * 256) + ranking.first
      [] ranking.tag = 2 -> (2 * 256) + (ranking.first * 16) + ranking.second
      [] ranking.tag = 3 -> (3 * 256) + ranking.first
      [] ranking.tag = 4 -> 4 * 256
      [] ranking.tag = 5 -> 5 * 256
      [] ranking.tag = 6 -> (6 * 256) + (ranking.first * 16) + ranking.second
      [] ranking.tag = 7 -> (7 * 256) + ranking.first
      [] ranking.tag = 8 -> 8 * 256
      [] ranking.tag = 9 -> 9 * 256

\* HandRanking::from_u16 on a value written by to_u16
HandRanking_from_u16(n) ==
    LET t == n \div 256
        lo4 == n % 16
        hi4 == (n \div 16) % 16
    IN  CASE t = 0 -> HighCard
          [] t = 1 -> OnePair(lo4)
          [] t = 2 -> TwoPair(hi4, lo4)
          [] t = 3 -> ThreeOfAKind(lo4)
          [] t = 4 -> Straight
          [] t = 5 -> Flush
          [] t = 6 -> FullHouse(hi4, lo4)
          [] t = 7 -> FourOfAKind(lo4)
          [] t = 8 -> StraightFlush
          [] t = 9 -> RoyalFlush

ScoreZERO == << 0, 0 >>

RECURSIVE rank_nibbles(_, _)
rank_nibbles(ranks_seq, i) ==
    IF i > Len(ranks_seq) THEN 0
    ELSE ranks_seq[i] * Pow2(16 - (i - 1) * 4) + rank_nibbles(ranks_seq, i + 1)

\* Score::from_ranking_cards: n = ranking << 20 | rank nibbles, highest rank first
Score_from_ranking_cards(ranking, cards) ==
    << HandRanking_to_u16(ranking), rank_nibbles(CardsByRank_iter(by_rank(cards)), 1) >>

Score_to_hand_ranking(score) == HandRanking_from_u16(score[1] % 4096)

\* derive(PartialOrd, Ord) on Score(u32)
Score_lt(a, b) == a[1] < b[1] \/ (a[1] = b[1] /\ a[2] < b[2])

Top5_of(ranking, cards) == [ranking |-> ranking, cards |-> cards]

Top5_to_score(top5) == Score_from_ranking_cards(top5.ranking, top5.cards)

NoTop5 == [ranking |-> HighCard, cards |-> NoneSet]

----------------------------------------------------------------------------
(* cards.rs: the classification of a card set *)

counts(cards) ==
    [ r \in RANKS |-> Cardinality({ c \in cards \cap MASK_FULL : Card_rank(c) = r }) ]

best_n(cnt, n) ==
    LET hits == { index \in RANKS : cnt[index] >= n }
    IN  IF hits = {} THEN None ELSE Max(hits)

suites(cards) == [ suite \in SUITES |-> CardsByRank_from_cards_suite(cards, suite) ]

\* a straight over the ranks of all suits, taken when some suit lane has five cards
straight_flush_any_suit(cards) ==
    LET full == { suite \in SUITES :
                    CardsByRank_count(CardsByRank_from_cards_suite(cards, suite)) >= 5 }
    IN  IF full = {} \/ CardsByRank_straight(by_rank(cards)) = NoneSet THEN NoneSet
        ELSE CardsByRank_to_cards_suite(CardsByRank_straight(by_rank(cards)), Max(full))

\* straight_flush: the suit lane holding a straight (the code asserts there is
\* at most one such lane)
straight_flush(cards) ==
    LET lanes == suites(cards)
        hits == { suite \in SUITES : CardsByRank_straight(lanes[suite]) # NoneSet }
    IN  IF hits = {} THEN NoneSet
        ELSE LET suite == Max(hits)
             IN  CardsByRank_to_cards_suite(CardsByRank_straight(lanes[suite]), suite)

is_flush(cards) ==
    \E suite \in SUITES :
        CardsByRank_count(CardsByRank_from_cards_suite(cards, suite)) >= 5

\* flush: the top five cards of the suit lane with at least five cards (the code
\* asserts there is at most one such lane)
flush(cards) ==
    LET lanes == suites(cards)
        hits == { suite \in SUITES : CardsByRank_count(lanes[suite]) >= 5 }
    IN  IF hits = {} THEN NoneSet
        ELSE LET suite == Max(hits)
             IN  CardsByRank_to_cards_suite(take_top_n(lanes[suite], 5), suite)

RECURSIVE kickers_loop(_, _, _, _, _)
kickers_loop(cards, ranks_seq, i, remaining, acc) ==
    IF i > Len(ranks_seq) THEN acc
    ELSE LET next == take_n(BitAnd(cards, of_rank(ranks_seq[i])), remaining)
             left == remaining - count(next)
         IN  IF left = 0 THEN BitOr(acc, next)
             ELSE kickers_loop(cards, ranks_seq, i + 1, left, BitOr(acc, next))

kickers(cards, n) == kickers_loop(cards, CardsByRank_iter(by_rank(cards)), 1, n, EMPTY)

quads(cards, cnt) ==
    LET quads_rank == best_n(cnt, 4)
    IN  IF quads_rank = None THEN << >>
        ELSE LET kicker == highest_rank(by_rank(cards) \ {quads_rank})
             IN  << quads_rank,
                    IF kicker = None THEN of_rank(quads_rank)
                    ELSE BitOr(of_rank(quads_rank),
                               take_n(BitAnd(cards, of_rank(kicker)), 1)) >>

full_house(cards, cnt) ==
    LET trips_rank == best_n(cnt, 3)
    IN  IF trips_rank = None THEN << >>
        ELSE LET pair_rank == best_n([cnt EXCEPT ![trips_rank] = 0], 2)
             IN  IF pair_rank = None THEN << >>
                 ELSE << trips_rank, pair_rank,
                         BitOr(take_n(BitAnd(cards, of_rank(trips_rank)), 3),
                               take_n(BitAnd(cards, of_rank(pair_rank)), 2)) >>

straight(cards) ==
    LET found == CardsByRank_straight(by_rank(cards))
    IN  IF found = NoneSet THEN NoneSet
        ELSE UNION { take_n(BitAnd(cards, of_rank(rank)), 1) : rank \in found }

trips(cards, cnt) ==
    LET trips_rank == best_n(cnt, 3)
    IN  IF trips_rank = None THEN << >>
        ELSE << trips_rank,
                BitOr(take_n(BitAnd(cards, of_rank(trips_rank)), 3),
                      kickers(without_rank(cards, trips_rank), 2)) >>

pair(cards, cnt) ==
    LET first_pair_rank == best_n(cnt, 2)
    IN  IF first_pair_rank = None THEN NoTop5
        ELSE LET first_pair == take_n(BitAnd(cards, of_rank(first_pair_rank)), 2)
                 second_pair_rank == best_n([cnt EXCEPT ![first_pair_rank] = 0], 2)
             IN  IF second_pair_rank = None
                 THEN Top5_of(OnePair(first_pair_rank),
                          BitOr(first_pair,
                                kickers(without_rank(cards, first_pair_rank), 3)))
                 ELSE Top5_of(TwoPair(first_pair_rank, second_pair_rank),
                          BitOr(BitOr(first_pair,
                                      take_n(BitAnd(cards, of_rank(second_pair_rank)), 2)),
                                kickers(without_rank(without_rank(cards, first_pair_rank),
                                                     second_pair_rank), 1)))

\* the branch of top5 and score_fast that tells a royal flush from a straight flush
straight_flush_ranking(found) ==
    IF Card_rank(first(found)) = Ace THEN RoyalFlush ELSE StraightFlush

top5(cards) ==
    LET cnt == counts(cards)
        sf == straight_flush(cards)
        q == quads(cards, cnt)
        fh == full_house(cards, cnt)
        fl == flush(cards)
        st == straight(cards)
        tr == trips(cards, cnt)
        pr == pair(cards, cnt)
    IN  IF sf # NoneSet THEN Top5_of(straight_flush_ranking(sf), sf)
        ELSE IF q # << >> THEN Top5_of(FourOfAKind(q[1]), q[2])
        ELSE IF fh # << >> THEN Top5_of(FullHouse(fh[1], fh[2]), fh[3])
        ELSE IF fl # NoneSet THEN Top5_of(Flush, fl)
        ELSE IF st # NoneSet THEN Top5_of(Straight, st)
        ELSE IF tr # << >> THEN Top5_of(ThreeOfAKind(tr[1]), tr[2])
        ELSE IF pr # NoTop5 THEN pr
        ELSE Top5_of(HighCard, kickers(cards, 5))

----------------------------------------------------------------------------
(* cards.rs: the rank-count key and the score table *)

U64_shl(n, k) == { b + k : b \in n } \cap U64Bits

U64_xor(a, b) == (a \ b) \cup (b \ a)

\* the five constants of interleave_first_32_bits_with_zeros, by their one-bits
MaskEvery(width) == { b \in U64Bits : (b \div width) % 2 = 0 }

MASK_0000ffff0000ffff == MaskEvery(16)
MASK_00ff00ff00ff00ff == MaskEvery(8)
MASK_0f0f0f0f0f0f0f0f == MaskEvery(4)
MASK_3333333333333333 == MaskEvery(2)
MASK_5555555555555555 == MaskEvery(1)

interleave_first_32_bits_with_zeros(n) ==
    LET n1 == BitAnd(U64_xor(n, U64_shl(n, 16)), MASK_0000ffff0000ffff)
        n2 == BitAnd(U64_xor(n1, U64_shl(n1, 8)), MASK_00ff00ff00ff00ff)
        n3 == BitAnd(U64_xor(n2, U64_shl(n2, 4)), MASK_0f0f0f0f0f0f0f0f)
        n4 == BitAnd(U64_xor(n3, U64_shl(n3, 2)), MASK_3333333333333333)
        n5 == BitAnd(U64_xor(n4, U64_shl(n4, 1)), MASK_5555555555555555)
    IN  n5

\* the value of nibble k (bits 4k .. 4k+3) of a u64
U64_nibble(n, k) ==
    (IF 4 * k \in n THEN 1 ELSE 0) + (IF 4 * k + 1 \in n THEN 2 ELSE 0)
        + (IF 4 * k + 2 \in n THEN 4 ELSE 0) + (IF 4 * k + 3 \in n THEN 8 ELSE 0)

\* the one-bits of v (0 <= v < 256) placed at bit position at
BitsAt(v, at) == { at + j : j \in { i \in 0 .. 7 : (v \div Pow2(i)) % 2 = 1 } } \cap U64Bits

\* u64 wrapping addition, nibble by nibble with carry
RECURSIVE U64_add_from(_, _, _, _)
U64_add_from(a, b, k, carry) ==
    IF k > 15 THEN {}
    ELSE LET sum == U64_nibble(a, k) + U64_nibble(b, k) + carry
         IN  BitsAt(sum % 16, 4 * k) \cup U64_add_from(a, b, k + 1, sum \div 16)

U64_add(a, b) == U64_add_from(a, b, 0, 0)

\* counts_n: counts_n |= u64::from(count) << (index * 4)
counts_n(cnt) == UNION { BitsAt(cnt[index], index * 4) : index \in RANKS }

\* counts_n_fast with one interleave per suit lane in place of two: the
\* counts land in fields of two bits
RECURSIVE counts_n_fast_from_one_interleave(_, _)
counts_n_fast_from_one_interleave(cards, suite) ==
    IF suite >= SuiteCOUNT THEN {}
    ELSE U64_add(
             interleave_first_32_bits_with_zeros(
                 CardsByRank_from_cards_suite(cards, suite)),
             counts_n_fast_from_one_interleave(cards, suite + 1))

RECURSIVE counts_n_fast_from(_, _)
counts_n_fast_from(cards, suite) ==
    IF suite >= SuiteCOUNT THEN {}
    ELSE U64_add(
             interleave_first_32_bits_with_zeros(
                 interleave_first_32_bits_with_zeros(
                     CardsByRank_from_cards_suite(cards, suite))),
             counts_n_fast_from(cards, suite + 1))

counts_n_fast(cards) == counts_n_fast_from(cards, 0)

RECURSIVE SumCounts(_, _)
SumCounts(cnt, index) ==
    IF index >= RankCOUNT THEN 0 ELSE cnt[index] + SumCounts(cnt, index + 1)

\* Score::from_counts: the cards of a key, suits dealt round-robin from Diamonds
RECURSIVE from_counts_cards(_, _, _, _)
from_counts_cards(cnt, rank, done, suite) ==
    IF rank >= RankCOUNT THEN EMPTY
    ELSE IF done >= cnt[rank] THEN from_counts_cards(cnt, rank + 1, 0, suite)
    ELSE {Card_of(rank, suite)}
             \cup from_counts_cards(cnt, rank, done + 1, (suite + 1) % SuiteCOUNT)

Score_from_counts(cnt) == Top5_to_score(top5(from_counts_cards(cnt, 0, 0, Diamonds)))

\* the counts a key packs, one nibble per rank
key_counts(key) == [ index \in RANKS |-> U64_nibble(key, index) ]

\* the keys init_score_map inserts: counts 0..4 per rank, 5 to 7 cards in all
score_map_has(key) ==
    /\ key \subseteq 0 .. (4 * RankCOUNT - 1)
    /\ \A index \in RANKS : U64_nibble(key, index) <= 4
    /\ SumCounts(key_counts(key), 0) \in 5 .. 7

\* a read of the table at a key it does not hold panics
ScorePanic == << -1, -1 >>

\* CARDS_SCORE_MAP[&counts_n]: the entry init_score_map stored for the key
cards_score_map(key) ==
    IF score_map_has(key) THEN Score_from_counts(key_counts(key)) ELSE ScorePanic

\* score_fast returning the table score whatever the suits are
score_fast_table_only(cards) == cards_score_map(counts_n_fast(cards))

score_fast(cards) ==
    LET score == cards_score_map(counts_n_fast(cards))
    IN  IF ~ is_flush(cards) THEN score
        ELSE IF Score_to_hand_ranking(score).tag = Straight.tag
                    /\ straight_flush(cards) # NoneSet
             THEN Top5_to_score(Top5_of(straight_flush_ranking(straight_flush(cards)),
                                        straight_flush(cards)))
             ELSE Top5_to_score(Top5_of(Flush, flush(cards)))

----------------------------------------------------------------------------
(* cards.rs: the construction of the score table.  The recursion over the   *)
(* 13 ranks is followed from its first call with remainder = MapRanks,      *)
(* which the program reaches with an empty map and all counts zero, to the  *)
(* return of that call: the part of the table for the MapRanks highest      *)
(* ranks.                                                                   *)

MapRanks == 5

\* HashMap::new() and the counts array of init_score_map; inserts counts the
\* calls of map.insert, ok turns FALSE when an assertion fails
NewScoreMap ==
    [ map |-> [ key \in {} |-> ScoreZERO ], counts |-> [ index \in RANKS |-> 0 ],
      inserts |-> 0, ok |-> TRUE ]

\* Option::None of CARDS_SCORE_MAP
NoScoreMap == [ some |-> FALSE, map |-> NewScoreMap.map ]

\* score_map_recursive leaving the loop of the last rank at the first total
\* below 5, where the code goes on with the next count
RECURSIVE score_map_recursive_leaf_break(_, _, _, _)
score_map_recursive_leaf_break(build, old_count, remainder, n) ==
    IF n > 4 \/ ~ build.ok THEN build
    ELSE LET index == RankCOUNT - remainder
             cnt == [ build.counts EXCEPT ![index] = n ]
             next_count == old_count + n
             set == [ build EXCEPT !.counts = cnt ]
             key == counts_n(cnt)
         IN  IF remainder = 1
                THEN IF next_count < 5 \/ next_count > 7
                        THEN set
                        ELSE IF key \in DOMAIN build.map
                                THEN [ set EXCEPT !.ok = FALSE ]
                                ELSE score_map_recursive_leaf_break(
                                         [ set EXCEPT
                                             !.map = @ @@ (key :> Score_from_counts(cnt)),
                                             !.inserts = @ + 1 ],
                                         old_count, remainder, n + 1)
                ELSE IF next_count > 7 THEN set
                     ELSE score_map_recursive_leaf_break(
                              score_map_recursive_leaf_break(set, next_count,
                                                             remainder - 1, 0),
                              old_count, remainder, n + 1)

\* score_map_recursive from iteration n of its for loop on (the call itself is
\* n = 0).  build holds what the call shares with its caller: the map and the
\* counts array.  An insert of a key the map holds already, or a failed
\* assertion of Score::from_counts, panics: ok turns FALSE and nothing more
\* is done.
RECURSIVE score_map_recursive(_, _, _, _)
score_map_recursive(build, old_count, remainder, n) ==
    IF n > 4 \/ ~ build.ok THEN build
    ELSE LET index == RankCOUNT - remainder
             cnt == [ build.counts EXCEPT ![index] = n ]
             next_count == old_count + n
             set == [ build EXCEPT !.counts = cnt ]
             key == counts_n(cnt)
             cards == from_counts_cards(cnt, 0, 0, Diamonds)
             from_counts_asserts ==
                 /\ count(cards) >= 5 /\ count(cards) <= 7
                 /\ flush(cards) = NoneSet
                 /\ top5(cards).ranking.tag \in
                        { HighCard.tag, OnePair(Two).tag, TwoPair(Two, Two).tag,
                          ThreeOfAKind(Two).tag, Straight.tag, FullHouse(Two, Two).tag,
                          FourOfAKind(Two).tag }
         IN  IF remainder = 1
                THEN IF next_count < 5 \/ next_count > 7
                        THEN score_map_recursive(set, old_count, remainder, n + 1)
                        ELSE IF ~ from_counts_asserts \/ key \in DOMAIN build.map
                                THEN [ set EXCEPT !.ok = FALSE ]
                                ELSE score_map_recursive(
                                         [ set EXCEPT
                                             !.map = @ @@ (key :> Score_from_counts(cnt)),
                                             !.inserts = @ + 1 ],
                                         old_count, remainder, n + 1)
                ELSE IF next_count > 7 THEN set
                     ELSE score_map_recursive(
                              score_map_recursive(set, next_count, remainder - 1, 0),
                              old_count, remainder, n + 1)

\* init_score_map up to its assertion: the map it built
init_score_map_built == score_map_recursive(NewScoreMap, 0, MapRanks, 0)

----------------------------------------------------------------------------
(* The states of the parts of the program a specification leaves alone *)

NoDeck == [ cards |-> << >>, max_len |-> 0, len |-> 0 ]

EvalIdle ==
    /\ handA = {} /\ handB = {}
    /\ scoreA = ScoreZERO /\ scoreB = ScoreZERO
    /\ topA = NoTop5 /\ topB = NoTop5
    /\ evalPc = 0

RankIdle == rankMask = {} /\ rankStraight = NoneSet /\ rankPc = 0

MaskIdle == mask = EMPTY /\ maskCards = {} /\ maskOps = 0

CalcIdle ==
    /\ known_cards = EMPTY /\ hero_cards = EMPTY
    /\ visited_community_cards = EMPTY /\ community_cards = EMPTY
    /\ villain_ranges = << >> /\ hand_ranking_scores = << >>
    /\ total = 0 /\ wins = << >> /\ ties = << >> /\ frames = << >>
    /\ calcPc = "idle" /\ arg_community_cards = EMPTY
    /\ deck = NoDeck /\ rounds = 0 /\ round = 0
    /\ result = << >> /\ leaf_boards = << >>

NoParse == << >>

RangeIdle ==
    /\ range_str = << >> /\ parsed = NoParse
    /\ rangeTable = [ rank \in RANKS |-> {} ]
    /\ rangeHands = << >> /\ rangeSet = {} /\ rangeContained = {}
    /\ rangeCount = 0 /\ rangePc = 0

DeckIdle == excluded = {} /\ returned = << >> /\ deckRet = << >> /\ deckOps = 0

ConvIdle == conv_n = {} /\ conv_ret = << >> /\ convPc = 0

KeyIdle == key_cards = EMPTY /\ key_n = {} /\ keyPc = 0

TableIdle ==
    /\ CARDS_SCORE_MAP = NoScoreMap
    /\ table_op = "" /\ table_cards = EMPTY /\ table_score = ScoreZERO
    /\ table_panic = FALSE

----------------------------------------------------------------------------
(* The evaluator applied to card sets of 5 to 7 cards *)

\* The cards the evaluated sets are drawn from: a prefix of this order of the
\* deck.  The order puts the wheel, the six-high straight, the royal flush and
\* the paired ranks first, so that a short prefix already holds every category.
DeckOrder ==
    << Card_of(Ace, Spades), Card_of(Two, Spades), Card_of(Three, Spades),
       Card_of(Four, Spades), Card_of(Five, Spades), Card_of(Six, Spades),
       Card_of(Ace, Hearts), Card_of(Six, Hearts), Card_of(Ace, Diamonds),
       Card_of(Ace, Clubs), Card_of(King, Spades), Card_of(Queen, Spades),
       Card_of(Jack, Spades), Card_of(Ten, Spades), Card_of(Five, Hearts),
       Card_of(Six, Diamonds), Card_of(Two, Hearts), Card_of(Nine, Spades),
       Card_of(King, Hearts), Card_of(Five, Diamonds) >>

EvalDeckSize == 14

PairDeckSize == 10

DeckPrefix(n) == { DeckOrder[i] : i \in 1 .. n }

HandsOf(pool) == { h \in SUBSET pool : Cardinality(h) \in 5 .. 7 }

EvalHands == HandsOf(DeckPrefix(EvalDeckSize))

PairHands == HandsOf(DeckPrefix(PairDeckSize))

\* score_fast asserts 5 <= count <= 7
score_fast_accepts(cards) == count(cards) >= 5 /\ count(cards) <= 7

\* one call of score_fast and of top5 on a card set
Evaluate ==
    /\ evalPc = 0
    /\ \E h \in EvalHands :
        /\ score_fast_accepts(h)
        /\ handA' = h
        /\ scoreA' = score_fast(h)
        /\ topA' = top5(h)
    /\ evalPc' = 1
    /\ UNCHANGED << handB, scoreB, topB, rankVars, keyVars, tableVars, convVars, maskVars, calcVars, rangeVars, deckVars >>

\* the results of the two functions on the sets of the pair specification
\* (f @@ << >> is f, tabulated once)
score_fast_of == [ h \in PairHands |-> score_fast(h) ] @@ << >>

top5_of == [ h \in PairHands |-> top5(h) ] @@ << >>

\* two calls, one after the other, on two card sets
EvaluateA ==
    /\ evalPc = 0
    /\ \E h \in PairHands :
        /\ score_fast_accepts(h)
        /\ handA' = h
        /\ scoreA' = score_fast_of[h]
        /\ topA' = top5_of[h]
    /\ evalPc' = 1
    /\ UNCHANGED << handB, scoreB, topB, rankVars, keyVars, tableVars, convVars, maskVars, calcVars, rangeVars, deckVars >>

EvaluateB ==
    /\ evalPc = 1
    /\ \E h \in PairHands :
        /\ score_fast_accepts(h)
        /\ handB' = h
        /\ scoreB' = score_fast_of[h]
        /\ topB' = top5_of[h]
    /\ evalPc' = 2
    /\ UNCHANGED << handA, scoreA, topA, rankVars, keyVars, tableVars, convVars, maskVars, calcVars, rangeVars, deckVars >>

InitEval == EvalIdle /\ RankIdle /\ MaskIdle /\ CalcIdle /\ RangeIdle /\ DeckIdle /\ KeyIdle /\ TableIdle /\ ConvIdle

NextEval == Evaluate

SpecEval == InitEval /\ [][NextEval]_vars

NextPair == EvaluateA \/ EvaluateB

SpecPair == InitEval /\ [][NextPair]_vars

----------------------------------------------------------------------------
(* CardsByRank::straight applied to every 13-bit rank mask *)

Detect ==
    /\ rankPc = 0
    /\ \E m \in SUBSET MASK_SINGLE :
        /\ rankMask' = m
        /\ rankStraight' = CardsByRank_straight(m)
    /\ rankPc' = 1
    /\ UNCHANGED << evalVars, keyVars, tableVars, convVars, maskVars, calcVars, rangeVars, deckVars >>

InitStraight == EvalIdle /\ RankIdle /\ MaskIdle /\ CalcIdle /\ RangeIdle /\ DeckIdle /\ KeyIdle /\ TableIdle /\ ConvIdle

NextStraight == Detect

SpecStraight == InitStraight /\ [][NextStraight]_vars

----------------------------------------------------------------------------
(* rank.rs, suite.rs, card.rs, cards.rs: card tokens *)

Rank_from_ascii(char) ==
    CASE char = "2" -> Two
      [] char = "3" -> Three
      [] char = "4" -> Four
      [] char = "5" -> Five
      [] char = "6" -> Six
      [] char = "7" -> Seven
      [] char = "8" -> Eight
      [] char = "9" -> Nine
      [] char = "T" -> Ten
      [] char = "J" -> Jack
      [] char = "Q" -> Queen
      [] char = "K" -> King
      [] char = "A" -> Ace
      [] OTHER -> None

Suite_from_ascii(ch) ==
    CASE ch = "d" -> Diamonds
      [] ch = "s" -> Spades
      [] ch = "h" -> Hearts
      [] ch = "c" -> Clubs
      [] OTHER -> None

\* Card::from_str on a two-character token << rank_raw, suite_raw >>
Card_from_str(token) ==
    IF Rank_from_ascii(token[1]) = None \/ Suite_from_ascii(token[2]) = None THEN None
    ELSE Card_of(Rank_from_ascii(token[1]), Suite_from_ascii(token[2]))

\* Cards::from_str on a sequence of tokens: NoneSet stands for the Err result
RECURSIVE from_str_from(_, _, _)
from_str_from(tokens, i, cards) ==
    IF i > Len(tokens) THEN cards
    ELSE LET card == Card_from_str(tokens[i])
         IN  IF card = None THEN NoneSet
             ELSE IF has(cards, card) THEN NoneSet
             ELSE from_str_from(tokens, i + 1, try_add(cards, card))

from_str(tokens) == from_str_from(tokens, 1, EMPTY)

\* Cards::from_slice: NoneSet stands for None (a card twice in the slice)
RECURSIVE try_from_slice_from(_, _, _)
try_from_slice_from(slice, i, cards) ==
    IF i > Len(slice) THEN cards
    ELSE IF has(cards, slice[i]) THEN NoneSet
    ELSE try_from_slice_from(slice, i + 1, try_add(cards, slice[i]))

try_from_slice(slice) == try_from_slice_from(slice, 1, EMPTY)

----------------------------------------------------------------------------
(* A Cards value under sequences of card-set operations.  maskCards is the   *)
(* set of << rank, suite >> pairs the value stands for, kept beside the mask *)
(* by the meaning of each operation.                                         *)

MaxMaskOps == 3

MaxSlice == 2

\* Card::all()
AllCards == { Card_of(rank, suite) : rank \in RANKS, suite \in SUITES }

CardPair(card) == << Card_rank(card), Card_suite(card) >>

PairsOf(cards) == { CardPair(c) : c \in cards }

\* the operand cards of the operations: both ends of two suit lanes
OperandCards ==
    { Card_of(Two, Diamonds), Card_of(Ace, Diamonds), Card_of(Two, Clubs),
      Card_of(King, Clubs), Card_of(Ace, Clubs), Card_of(Ace, Hearts) }

OperandSlices == UNION { [ 1 .. n -> OperandCards ] : n \in 0 .. MaxSlice }

RankChars == { "2", "K", "A", "X" }

SuiteChars == { "d", "c", "x" }

OperandTokens == UNION { [ 1 .. n -> RankChars \X SuiteChars ] : n \in 0 .. MaxSlice }

\* the other operand of the binary operators: a value from_slice builds
OperandSets == { try_from_slice(sl) : sl \in OperandSlices } \ { NoneSet }

\* the n first pairs in iteration order: highest suite first, then highest rank
RECURSIVE TopPairs(_, _)
TopPairs(pairs, n) ==
    IF n = 0 \/ pairs = {} THEN {}
    ELSE LET top == CHOOSE x \in pairs :
                        \A y \in pairs : y[2] * 16 + y[1] <= x[2] * 16 + x[1]
         IN  {top} \cup TopPairs(pairs \ {top}, n - 1)

MaskStep ==
    /\ maskOps < MaxMaskOps
    /\ maskOps' = maskOps + 1
    /\ UNCHANGED << evalVars, rankVars, keyVars, tableVars, convVars, calcVars, rangeVars, deckVars >>

OpFromStr ==
    /\ MaskStep
    /\ \E tokens \in OperandTokens :
        /\ from_str(tokens) # NoneSet
        /\ mask' = from_str(tokens)
        /\ maskCards' = { << Rank_from_ascii(tokens[i][1]), Suite_from_ascii(tokens[i][2]) >> :
                            i \in DOMAIN tokens }

OpFromSlice ==
    /\ MaskStep
    /\ \E slice \in OperandSlices :
        /\ try_from_slice(slice) # NoneSet
        /\ mask' = try_from_slice(slice)
        /\ maskCards' = { CardPair(slice[i]) : i \in DOMAIN slice }

OpTryAdd ==
    /\ MaskStep
    /\ \E card \in OperandCards :
        /\ mask' = try_add(mask, card)
        /\ maskCards' = maskCards \cup { CardPair(card) }

\* add and with assert that the card is absent
OpAdd ==
    /\ MaskStep
    /\ \E card \in OperandCards :
        /\ ~ has(mask, card)
        /\ mask' = try_add(mask, card)
        /\ maskCards' = maskCards \cup { CardPair(card) }

OpWith ==
    /\ MaskStep
    /\ \E card \in OperandCards :
        /\ ~ has(mask, card)
        /\ mask' = with(mask, card)
        /\ maskCards' = maskCards \cup { CardPair(card) }

\* remove asserts that the card is present
OpRemove ==
    /\ MaskStep
    /\ \E card \in AllCards :
        /\ has(mask, card)
        /\ mask' = remove(mask, card)
        /\ maskCards' = maskCards \ { CardPair(card) }

OpBitAnd ==
    /\ MaskStep
    /\ \E other \in OperandSets :
        /\ mask' = BitAnd(mask, other)
        /\ maskCards' = maskCards \cap PairsOf(other)

OpBitOr ==
    /\ MaskStep
    /\ \E other \in OperandSets :
        /\ mask' = BitOr(mask, other)
        /\ maskCards' = maskCards \cup PairsOf(other)

OpNot ==
    /\ MaskStep
    /\ mask' = Not(mask)
    /\ maskCards' = (RANKS \X SUITES) \ maskCards

OpWithoutRank ==
    /\ MaskStep
    /\ \E rank \in RANKS :
        /\ mask' = without_rank(mask, rank)
        /\ maskCards' = { x \in maskCards : x[1] # rank }

OpTakeN ==
    /\ MaskStep
    /\ \E n \in 0 .. 7 :
        /\ mask' = take_n(mask, n)
        /\ maskCards' = TopPairs(maskCards, n)

\* one suit lane of the value, moved to a suit
OpToCardsSuite ==
    /\ MaskStep
    /\ \E from \in SUITES, to \in SUITES :
        /\ mask' = CardsByRank_to_cards_suite(CardsByRank_from_cards_suite(mask, from), to)
        /\ maskCards' = { << x[1], to >> : x \in { y \in maskCards : y[2] = from } }

InitMask == EvalIdle /\ RankIdle /\ MaskIdle /\ CalcIdle /\ RangeIdle /\ DeckIdle /\ KeyIdle /\ TableIdle /\ ConvIdle

NextMask ==
    \/ OpFromStr \/ OpFromSlice \/ OpTryAdd \/ OpAdd \/ OpWith \/ OpRemove
    \/ OpBitAnd \/ OpBitOr \/ OpNot \/ OpWithoutRank \/ OpTakeN \/ OpToCardsSuite

SpecMask == InitMask /\ [][NextMask]_vars

----------------------------------------------------------------------------
(* hand.rs, range.rs: hands and range tables *)

CardCOUNT == SuiteCOUNT * RankCOUNT

\* Hand::of_cards: the pair << high, low >>, ordered by rank and then by suite
Hand_of_cards(a, b) ==
    IF Card_rank(a) < Card_rank(b) THEN << b, a >>
    ELSE IF Card_rank(a) > Card_rank(b) THEN << a, b >>
    ELSE IF Card_suite(a) < Card_suite(b) THEN << b, a >>
    ELSE << a, b >>

Hand_high(hand) == hand[1]

Hand_low(hand) == hand[2]

Hand_suited(hand) == Card_suite(Hand_high(hand)) = Card_suite(Hand_low(hand))

RangeEntry(high, low, suited) == [ high |-> high, low |-> low, suited |-> suited ]

RangeEntry_from_hand(hand) ==
    RangeEntry(Card_rank(Hand_high(hand)), Card_rank(Hand_low(hand)), Hand_suited(hand))

\* every entry is looked up at [high][low]
first_second_high_low(entry) == << entry.high, entry.low >>

\* RangeEntry::first_second: the row and the column of the entry's cell
first_second(entry) ==
    IF entry.suited THEN << entry.high, entry.low >> ELSE << entry.low, entry.high >>

RangeTable_empty == [ rank \in RANKS |-> {} ]

\* RangeTable::full: every cell of the matrix
RangeTable_full == [ rank \in RANKS |-> RANKS ]

RangeTable_add(table, entry) ==
    LET ab == first_second(entry)
    IN  [ table EXCEPT ![ab[1]] = @ \cup { ab[2] } ]

contains_entry(table, entry) ==
    LET ab == first_second(entry)
    IN  ab[2] \in table[ab[1]]

\* every hand is taken to be in the range
RangeTable_contains_any(table, hand) == TRUE

RangeTable_contains(table, hand) == contains_entry(table, RangeEntry_from_hand(hand))

RangeTable_is_empty(table) == \A rank \in RANKS : table[rank] = {}

\* for_each_hand, the hands of one cell in the order of the suit loops
RECURSIVE unsuited_hands(_, _, _, _)
unsuited_hands(row_rank, column_rank, suite_a, suite_b) ==
    IF suite_a >= SuiteCOUNT THEN << >>
    ELSE IF suite_b >= SuiteCOUNT
        THEN unsuited_hands(row_rank, column_rank, suite_a + 1, suite_a + 2)
    ELSE << Hand_of_cards(Card_of(row_rank, suite_a), Card_of(column_rank, suite_b)) >>
         \o (IF row_rank # column_rank
                THEN << Hand_of_cards(Card_of(row_rank, suite_b),
                                      Card_of(column_rank, suite_a)) >>
                ELSE << >>)
         \o unsuited_hands(row_rank, column_rank, suite_a, suite_b + 1)

\* the two-suit loop is run for both orders of the two ranks
cell_hands_both_orders(row_rank, column_rank) ==
    IF row_rank > column_rank
        THEN [ i \in 1 .. SuiteCOUNT |->
                 Hand_of_cards(Card_of(row_rank, i - 1), Card_of(column_rank, i - 1)) ]
        ELSE unsuited_hands(row_rank, column_rank, 0, 1)
                \o unsuited_hands(column_rank, row_rank, 0, 1)

cell_hands(row_rank, column_rank) ==
    IF row_rank > column_rank
        THEN [ i \in 1 .. SuiteCOUNT |->
                 Hand_of_cards(Card_of(row_rank, i - 1), Card_of(column_rank, i - 1)) ]
        ELSE unsuited_hands(row_rank, column_rank, 0, 1)

\* for_each_hand, the while loop over one row
RECURSIVE row_hands(_, _)
row_hands(row_rank, row) ==
    LET column_rank == highest_rank(row)
    IN  IF column_rank = None THEN << >>
        ELSE cell_hands(row_rank, column_rank) \o row_hands(row_rank, row \ {column_rank})

RECURSIVE for_each_hand_from(_, _)
for_each_hand_from(table, row_rank) ==
    IF row_rank >= RankCOUNT THEN << >>
    ELSE row_hands(row_rank, table[row_rank]) \o for_each_hand_from(table, row_rank + 1)

\* RangeTable::for_each_hand: the hands in the order the closure receives them
for_each_hand(table) == for_each_hand_from(table, 0)

count_cards(table) == 2 * Len(for_each_hand(table))

----------------------------------------------------------------------------
(* range.rs: RangeTable::parse.  A string is the sequence of its characters; *)
(* a Result<RangeTable> or Result<()> is Ok(table), the table after the      *)
(* call, or Err.                                                             *)

Ok(table) == << "Ok", table >>

Err == << "Err" >>

is_ok(res) == res[1] = "Ok"

\* a cell that is already set is set once more without complaint
RangeTable_try_add_again(table, entry) == Ok(RangeTable_add(table, entry))

RangeTable_try_add(table, entry) ==
    IF contains_entry(table, entry) THEN Err ELSE Ok(RangeTable_add(table, entry))

parse_pair(table, raw_rank) ==
    LET rank == Rank_from_ascii(raw_rank)
    IN  IF rank = None THEN Err
        ELSE RangeTable_try_add(table, RangeEntry(rank, rank, FALSE))

\* the loop runs over Rank::range(from, Rank::Ace) and ends at the first error
parse_pairs_asc(table, raw_rank) ==
    LET from == Rank_from_ascii(raw_rank)
        RECURSIVE loop(_, _)
        loop(t, rank) ==
            IF rank > Ace THEN Ok(t)
            ELSE LET res == RangeTable_try_add(t, RangeEntry(rank, rank, FALSE))
                 IN  IF is_ok(res) THEN loop(res[2], rank + 1) ELSE Err
    IN  IF from = None THEN Err ELSE loop(table, from)

parse_one(table, raw_high, raw_low, suited) ==
    LET high == Rank_from_ascii(raw_high)
        low == Rank_from_ascii(raw_low)
    IN  IF high = None \/ low = None THEN Err
        ELSE IF low >= high THEN Err
        ELSE RangeTable_try_add(table, RangeEntry(high, low, suited))

\* the pairs rise to the highest rank below the high card as well
parse_asc_up_to_high(table, raw_high, raw_low, suited) ==
    LET high == Rank_from_ascii(raw_high)
        low == Rank_from_ascii(raw_low)
        RECURSIVE loop(_, _)
        loop(t, rank) ==
            IF rank > high THEN Ok(t)
            ELSE LET res == RangeTable_try_add(t, RangeEntry(high, rank, suited))
                 IN  IF is_ok(res) THEN loop(res[2], rank + 1) ELSE Err
    IN  IF high = None \/ low = None THEN Err
        ELSE IF low >= high THEN Err
        ELSE loop(table, low)

\* the loop runs over Rank::range(low, high.predecessor().unwrap()); high is
\* above low, so it has a predecessor, the rank high - 1
parse_asc(table, raw_high, raw_low, suited) ==
    LET high == Rank_from_ascii(raw_high)
        low == Rank_from_ascii(raw_low)
        RECURSIVE loop(_, _)
        loop(t, rank) ==
            IF rank > high - 1 THEN Ok(t)
            ELSE LET res == RangeTable_try_add(t, RangeEntry(high, rank, suited))
                 IN  IF is_ok(res) THEN loop(res[2], rank + 1) ELSE Err
    IN  IF high = None \/ low = None THEN Err
        ELSE IF low >= high THEN Err
        ELSE loop(table, low)

\* RangeTable::parse.  split is str::split(','): the pieces between the
\* commas, empty pieces included; parse_def is the match on the bytes of one
\* piece, arm by arm; the loop over the pieces returns at the first error.
RangeTable_parse(str) ==
    LET RECURSIVE split_from(_, _)
        split_from(i, piece) ==
            IF i > Len(str) THEN << piece >>
            ELSE IF str[i] = "," THEN << piece >> \o split_from(i + 1, << >>)
            ELSE split_from(i + 1, Append(piece, str[i]))
        defs == split_from(1, << >>)
        parse_def(table, def) ==
            IF Len(def) = 2 /\ def[1] = def[2] THEN parse_pair(table, def[1])
            ELSE IF Len(def) = 3 /\ def[3] = "+" /\ def[1] = def[2]
                THEN parse_pairs_asc(table, def[1])
            ELSE IF Len(def) = 3 /\ def[3] = "o"
                THEN parse_one(table, def[1], def[2], FALSE)
            ELSE IF Len(def) = 4 /\ def[3] = "o" /\ def[4] = "+"
                THEN parse_asc(table, def[1], def[2], FALSE)
            ELSE IF Len(def) = 3 /\ def[3] = "s"
                THEN parse_one(table, def[1], def[2], TRUE)
            ELSE IF Len(def) = 4 /\ def[3] = "s" /\ def[4] = "+"
                THEN parse_asc(table, def[1], def[2], TRUE)
            ELSE Err
        RECURSIVE loop(_, _)
        loop(table, i) ==
            IF i > Len(defs) THEN Ok(table)
            ELSE LET res == parse_def(table, defs[i])
                 IN  IF is_ok(res) THEN loop(res[2], i + 1) ELSE Err
    IN  loop(RangeTable_empty, 1)

----------------------------------------------------------------------------
(* Calls of RangeTable::parse *)

\* strings of up to MaxRaw characters of RawChars
MaxRaw == 4

\* strings of up to MaxDefs entries of JoinDefs, joined by commas
MaxDefs == 2

RawChars == { "A", "K", "s", "o", "+", ",", "x" }

RankCharSeq == << "2", "3", "4", "5", "6", "7", "8", "9", "T", "J", "Q", "K", "A" >>

Suffixes == { << >>, << "+" >>, << "s" >>, << "o" >>, << "s", "+" >>, << "o", "+" >> }

\* two characters, each a rank or the letter x, and one of the suffixes
SingleDefs ==
    LET chars == { RankCharSeq[i] : i \in DOMAIN RankCharSeq } \cup { "x" }
    IN  { << a, b >> \o suffix : a \in chars, b \in chars, suffix \in Suffixes }

\* the well-formed entries of the ranks A, K and 2, and two entries of ranks
\* between them
JoinDefs ==
    { def \in SingleDefs :
        /\ { def[1], def[2] } \subseteq { "A", "K", "2" }
        /\ IF def[1] = def[2] THEN Len(def) = 2 \/ (Len(def) = 3 /\ def[3] = "+")
           ELSE /\ Len(def) > 2
                /\ Rank_from_ascii(def[2]) < Rank_from_ascii(def[1]) }
        \cup { << "Q", "Q" >>, << "A", "T", "s" >> }

RECURSIVE JoinedStrs(_)
JoinedStrs(n) ==
    IF n = 1 THEN JoinDefs
    ELSE JoinedStrs(n - 1)
            \cup { str \o << "," >> \o def : str \in JoinedStrs(n - 1), def \in JoinDefs }

RangeStrs ==
    UNION { [ 1 .. n -> RawChars ] : n \in 0 .. MaxRaw } \cup SingleDefs \cup JoinedStrs(MaxDefs)

\* one call of RangeTable::parse
Parse ==
    /\ parsed = NoParse
    /\ \E str \in RangeStrs :
        /\ range_str' = str
        /\ parsed' = RangeTable_parse(str)
    /\ UNCHANGED << rangeTable, rangeHands, rangeSet, rangeContained, rangeCount, rangePc >>
    /\ UNCHANGED << evalVars, rankVars, keyVars, tableVars, convVars, maskVars, calcVars, deckVars >>

InitParse ==
    EvalIdle /\ RankIdle /\ MaskIdle /\ CalcIdle /\ RangeIdle /\ DeckIdle /\ KeyIdle /\ TableIdle /\ ConvIdle

NextParse == Parse

SpecParse == InitParse /\ [][NextParse]_vars

----------------------------------------------------------------------------
(* RangeTable::for_each_hand, to_set, contains and count_cards called in turn *)
(* on one table                                                               *)

\* GridSize ranks span the square of cells the tables are filled in
GridSize == 3

\* a table holds at most MaxCells cells of that square
MaxCells == 3

GridOrder ==
    << Ace, Two, King, Three, Queen, Four, Jack, Five, Ten, Six, Nine, Seven, Eight >>

GridCells ==
    LET ranks == { GridOrder[i] : i \in 1 .. GridSize } IN ranks \X ranks

TableOf(cells) == [ row \in RANKS |-> { column \in RANKS : << row, column >> \in cells } ]

\* the tables: each cell of the matrix alone, up to MaxCells cells of the
\* square (the empty table among them), and the full table
RangeTables ==
    { TableOf({ cell }) : cell \in RANKS \X RANKS }
        \cup { TableOf(cells) : cells \in { c \in SUBSET GridCells : Cardinality(c) <= MaxCells } }
        \cup { RangeTable_full }

\* every hand of two distinct cards
AllHands == { Hand_of_cards(a, b) : a, b \in AllCards } \ { << a, a >> : a \in AllCards }

\* one call of for_each_hand with a closure that appends the hand to a list
ForEachHand ==
    /\ rangePc = 0
    /\ rangeHands' = for_each_hand(rangeTable)
    /\ rangePc' = 1
    /\ UNCHANGED << range_str, parsed, rangeTable, rangeSet, rangeContained, rangeCount >>
    /\ UNCHANGED << evalVars, rankVars, keyVars, tableVars, convVars, maskVars, calcVars, deckVars >>

\* one call of to_set: the loops over high, low <= high, suite_a and suite_b
ToSet ==
    /\ rangePc = 1
    /\ rangeSet' =
          { Hand_of_cards(Card_of(e[1], e[3]), Card_of(e[2], e[4])) :
              e \in { x \in RANKS \X RANKS \X SUITES \X SUITES :
                        /\ x[2] <= x[1]
                        /\ ~ (x[3] = x[4] /\ x[1] = x[2])
                        /\ contains_entry(rangeTable, RangeEntry(x[1], x[2], x[3] = x[4])) } }
    /\ rangePc' = 2
    /\ UNCHANGED << range_str, parsed, rangeTable, rangeHands, rangeContained, rangeCount >>
    /\ UNCHANGED << evalVars, rankVars, keyVars, tableVars, convVars, maskVars, calcVars, deckVars >>

\* contains called with every hand: the hands it accepts
Contains ==
    /\ rangePc = 2
    /\ rangeContained' = { hand \in AllHands : RangeTable_contains(rangeTable, hand) }
    /\ rangePc' = 3
    /\ UNCHANGED << range_str, parsed, rangeTable, rangeHands, rangeSet, rangeCount >>
    /\ UNCHANGED << evalVars, rankVars, keyVars, tableVars, convVars, maskVars, calcVars, deckVars >>

\* one call of count_cards
CountCards ==
    /\ rangePc = 3
    /\ rangeCount' = count_cards(rangeTable)
    /\ rangePc' = 4
    /\ UNCHANGED << range_str, parsed, rangeTable, rangeHands, rangeSet, rangeContained >>
    /\ UNCHANGED << evalVars, rankVars, keyVars, tableVars, convVars, maskVars, calcVars, deckVars >>

InitRange ==
    /\ EvalIdle /\ RankIdle /\ MaskIdle /\ CalcIdle /\ DeckIdle /\ KeyIdle /\ TableIdle /\ ConvIdle
    /\ range_str = << >> /\ parsed = NoParse
    /\ rangeTable \in RangeTables
    /\ rangeHands = << >> /\ rangeSet = {} /\ rangeContained = {}
    /\ rangeCount = 0 /\ rangePc = 0

NextRange == ForEachHand \/ ToSet \/ Contains \/ CountCards

SpecRange == InitRange /\ [][NextRange]_vars

----------------------------------------------------------------------------
(* equity.rs: u128 arithmetic of the pre-flight bound, on 15-bit limbs with *)
(* the least significant limb first                                        *)

LimbBits == 5 * 3

LimbBase == Pow2(LimbBits)

Limbs == 2 * 5

BigOf(n) == [ i \in 1 .. Limbs |-> IF i = 1 THEN n ELSE 0 ]

RECURSIVE Big_mul_from(_, _, _, _)
Big_mul_from(a, k, i, carry) ==
    IF i > Limbs THEN << >>
    ELSE LET p == a[i] * k + carry
         IN  << p % LimbBase >> \o Big_mul_from(a, k, i + 1, p \div LimbBase)

\* a * k for a multiplier below 2^15
Big_mul(a, k) == Big_mul_from(a, k, 1, 0)

RECURSIVE Big_lt_from(_, _, _)
Big_lt_from(a, b, i) ==
    IF i = 0 THEN FALSE
    ELSE IF a[i] # b[i] THEN a[i] < b[i]
    ELSE Big_lt_from(a, b, i - 1)

Big_lt(a, b) == Big_lt_from(a, b, Limbs)

Big_min(a, b) == IF Big_lt(b, a) THEN b ELSE a

\* 128 = 8 * 15 + 8 and 64 = 4 * 15 + 4
exceeds_u128(a) == a[9] >= Pow2(8) \/ a[10] # 0

\* the bound is tested against u128::MAX, not u64::MAX
exceeds_u64_as_u128(a) == a[9] >= Pow2(8) \/ a[10] # 0

exceeds_u64(a) == a[5] >= Pow2(4) \/ \E i \in 6 .. Limbs : a[i] # 0

U128_MAX == [ i \in 1 .. Limbs |-> IF i <= 8 THEN LimbBase - 1 ELSE IF i = 9 THEN Pow2(8) - 1 ELSE 0 ]

\* the unchecked multiplication of u128 (release build: wrapping)
U128_wrapping_mul(a, k) ==
    LET p == Big_mul(a, k)
    IN  [ i \in 1 .. Limbs |-> IF i <= 8 THEN p[i] ELSE IF i = 9 THEN p[i] % Pow2(8) ELSE 0 ]

\* a * (remaining) * (remaining - 1) * ... over n factors
RECURSIVE falling_product(_, _, _)
falling_product(a, remaining_cards, n) ==
    IF n = 0 THEN a
    ELSE falling_product(U128_wrapping_mul(a, remaining_cards), remaining_cards - 1, n - 1)

RECURSIVE ranges_product(_, _, _)
ranges_product(count_, ranges, i) ==
    IF i > Len(ranges) THEN count_
    ELSE LET next_count == Big_mul(count_, count_cards(ranges[i]))
         IN  IF exceeds_u128(next_count) THEN U128_MAX
             ELSE ranges_product(next_count, ranges, i + 1)

\* the bound without the factor of the board completions
total_combos_upper_bound_ranges_only(community, ranges) ==
    LET community_cards_count == count(community)
        remaining_cards == CardCOUNT - community_cards_count - 2
        missing == 5 - community_cards_count
        count_ == BigOf(1)
        max_count == falling_product(count_, remaining_cards - missing, Len(ranges) * 2)
        product == ranges_product(count_, ranges, 1)
    IN  IF product = U128_MAX THEN U128_MAX ELSE Big_min(product, max_count)

total_combos_upper_bound(community, ranges) ==
    LET community_cards_count == count(community)
        remaining_cards == CardCOUNT - community_cards_count - 2
        missing == 5 - community_cards_count
        count_ == falling_product(BigOf(1), remaining_cards, missing)
        max_count == falling_product(count_, remaining_cards - missing, Len(ranges) * 2)
        product == ranges_product(count_, ranges, 1)
    IN  IF product = U128_MAX THEN U128_MAX ELSE Big_min(product, max_count)

\* the assertions of check_input all pass
check_input(community, hero, ranges) ==
    /\ count(hero) = 2
    /\ count(community) <= 5
    /\ count(BitOr(community, hero)) = count(community) + count(hero)
    /\ Len(ranges) # 0
    /\ Len(ranges) <= 8
    /\ \A i \in DOMAIN ranges : ~ RangeTable_is_empty(ranges[i])

----------------------------------------------------------------------------
(* equity.rs: the result of a query *)

\* Option::None of an Option<Vec<Equity>>
NoEquities == << >>

\* every player's Equity carries that player's own wins as its total
Equity_with_own_total(total_, wins_, ties_) ==
    [ i \in DOMAIN wins_ |-> [ wins |-> wins_[i], ties |-> ties_[i], total |-> wins_[i] ] ]

\* Equity::from_total_wins_ties (called with total # 0 and as many wins as ties)
Equity_from_total_wins_ties(total_, wins_, ties_) ==
    [ i \in DOMAIN wins_ |-> [ wins |-> wins_[i], ties |-> ties_[i], total |-> total_ ] ]

----------------------------------------------------------------------------
(* equity.rs: showdown.  ties holds exact fractions, counted in units of     *)
(* 1/TieUnit, where the code adds the f64 value 1.0 / winners.               *)

TieUnit == 8 * 9 * 5 * 7

max_score(scores) ==
    CHOOSE s \in { scores[i] : i \in DOMAIN scores } :
        \A i \in DOMAIN scores : ~ Score_lt(s, scores[i])

winners(scores) == Cardinality({ i \in DOMAIN scores : scores[i] = max_score(scores) })

\* each tied player is credited 1/winners in showdown
tie_ratio_whole(n) == TieUnit

tie_ratio(n) == TieUnit \div n

\* the first player with the maximum score is credited a win, tied or not
showdown_wins_first_max(scores, wins_) ==
    LET winner_index == CHOOSE i \in DOMAIN scores :
            /\ scores[i] = max_score(scores)
            /\ \A j \in 1 .. i - 1 : scores[j] # max_score(scores)
    IN  [ wins_ EXCEPT ![winner_index] = @ + 1 ]

showdown_wins(scores, wins_) ==
    IF winners(scores) = 1
        THEN LET winner_index == CHOOSE i \in DOMAIN scores : scores[i] = max_score(scores)
             IN  [ wins_ EXCEPT ![winner_index] = @ + 1 ]
        ELSE wins_

showdown_ties(scores, ties_) ==
    IF winners(scores) = 1 THEN ties_
    ELSE [ index \in DOMAIN ties_ |->
             IF scores[index] = max_score(scores)
                THEN ties_[index] + tie_ratio(winners(scores))
                ELSE ties_[index] ]

----------------------------------------------------------------------------
(* equity.rs: EquityCalculator.  frames is the call stack of community_cards *)
(* and players, the innermost call last; every frame holds the locals of its *)
(* call: remainder, the cards captured on entry (current_community_cards or  *)
(* current_known_cards), current_visited_community_cards, and the position   *)
(* of the for_each_hand loop.                                                *)

Frame(fn, remainder, cards, visited, next) ==
    [ fn |-> fn, remainder |-> remainder, cards |-> cards, visited |-> visited, next |-> next ]

Top == frames[Len(frames)]

Pop == SubSeq(frames, 1, Len(frames) - 1)

\* players: the index of the villain whose hands a frame iterates
player_index(frame) == Len(villain_ranges) - frame.remainder - 1

NoHand == << >>

\* players: the hand the closure is called with next (NoHand after the last)
next_hand(frame) ==
    LET hands == for_each_hand(villain_ranges[player_index(frame) + 1])
    IN  IF frame.next > Len(hands) THEN NoHand ELSE hands[frame.next]

\* players: only the high card of the hand is tested against the known cards
hand_collides_high_only(current_known_cards, hand) ==
    has(current_known_cards, Hand_high(hand))

hand_collides(current_known_cards, hand) ==
    has(current_known_cards, Hand_high(hand)) \/ has(current_known_cards, Hand_low(hand))

\* EquityCalculator::new
New ==
    /\ calcPc = "idle"
    /\ IF check_input(community_cards, hero_cards, villain_ranges)
        THEN /\ known_cards' = EMPTY
             /\ visited_community_cards' = BitOr(community_cards, hero_cards)
             /\ hand_ranking_scores' = [ i \in 1 .. Len(villain_ranges) + 1 |-> ScoreZERO ]
             /\ total' = 0
             /\ wins' = [ i \in 1 .. Len(villain_ranges) + 1 |-> 0 ]
             /\ ties' = [ i \in 1 .. Len(villain_ranges) + 1 |-> 0 ]
             /\ calcPc' = "new"
        ELSE /\ calcPc' = "panic"
             /\ UNCHANGED << known_cards, visited_community_cards, hand_ranking_scores,
                             total, wins, ties >>
    /\ UNCHANGED << hero_cards, community_cards, villain_ranges, frames, arg_community_cards, leaf_boards, result >>
    /\ UNCHANGED << evalVars, rankVars, keyVars, tableVars, convVars, maskVars, rangeVars, deckVars, deck, rounds, round >>

\* EquityCalculator::calc up to the first call of community_cards
Calc ==
    /\ calcPc = "new"
    /\ IF exceeds_u64(total_combos_upper_bound(community_cards, villain_ranges))
        THEN calcPc' = "rejected" /\ frames' = frames
        ELSE /\ calcPc' = "run"
             /\ frames' = << Frame("community_cards", 5 - count(community_cards),
                                   community_cards, visited_community_cards, 0) >>
    /\ result' = NoEquities
    /\ UNCHANGED << known_cards, hero_cards, visited_community_cards, community_cards,
                    villain_ranges, hand_ranking_scores, total, wins, ties,
                    arg_community_cards, leaf_boards >>
    /\ UNCHANGED << evalVars, rankVars, keyVars, tableVars, convVars, maskVars, rangeVars, deckVars, deck, rounds, round >>

\* community_cards with remainder = 0, up to the call of players; nothing
\* follows that call, so the frame of players takes the place of this one
CommunityLeaf ==
    /\ calcPc = "run" /\ frames # << >>
    /\ Top.fn = "community_cards" /\ Top.remainder = 0
    /\ LET known == BitOr(hero_cards, community_cards)
       IN  /\ hand_ranking_scores' =
                [ hand_ranking_scores EXCEPT ![1] = Top5_to_score(top5(known)) ]
           /\ known_cards' = known
           /\ leaf_boards' = Append(leaf_boards, community_cards)
           /\ frames' = Pop \o << Frame("players", Len(villain_ranges) - 1, known, EMPTY, 1) >>
    /\ UNCHANGED << hero_cards, visited_community_cards, community_cards, villain_ranges,
                    total, wins, ties, calcPc, arg_community_cards, result >>
    /\ UNCHANGED << evalVars, rankVars, keyVars, tableVars, convVars, maskVars, rangeVars, deckVars, deck, rounds, round >>

\* community_cards without the write of current_visited_community_cards to
\* self.visited_community_cards: the recursive call starts from the set the
\* field held before
CommunityPick_no_write_back ==
    /\ calcPc = "run" /\ frames # << >>
    /\ Top.fn = "community_cards" /\ Top.remainder # 0
    /\ first(Not(Top.visited)) # None
    /\ LET card == first(Not(Top.visited))
           visited == try_add(Top.visited, card)
       IN  /\ community_cards' = with(Top.cards, card)
           /\ visited_community_cards' = visited_community_cards
           /\ frames' = Pop \o << [ Top EXCEPT !.visited = visited ],
                                  Frame("community_cards", Top.remainder - 1,
                                        with(Top.cards, card), visited_community_cards, 0) >>
    /\ UNCHANGED << known_cards, hero_cards, villain_ranges, hand_ranking_scores,
                    total, wins, ties, calcPc, arg_community_cards, leaf_boards, result >>
    /\ UNCHANGED << evalVars, rankVars, keyVars, tableVars, convVars, maskVars, rangeVars, deckVars, deck, rounds, round >>

\* community_cards: one iteration of the while loop, up to the recursive call
CommunityPick ==
    /\ calcPc = "run" /\ frames # << >>
    /\ Top.fn = "community_cards" /\ Top.remainder # 0
    /\ first(Not(Top.visited)) # None
    /\ LET card == first(Not(Top.visited))
           visited == try_add(Top.visited, card)
       IN  /\ community_cards' = with(Top.cards, card)
           /\ visited_community_cards' = visited
           /\ frames' = Pop \o << [ Top EXCEPT !.visited = visited ],
                                  Frame("community_cards", Top.remainder - 1,
                                        with(Top.cards, card), visited, 0) >>
    /\ UNCHANGED << known_cards, hero_cards, villain_ranges, hand_ranking_scores,
                    total, wins, ties, calcPc, arg_community_cards, leaf_boards, result >>
    /\ UNCHANGED << evalVars, rankVars, keyVars, tableVars, convVars, maskVars, rangeVars, deckVars, deck, rounds, round >>

\* community_cards: the while loop ends, the call returns
CommunityReturn ==
    /\ calcPc = "run" /\ frames # << >>
    /\ Top.fn = "community_cards" /\ Top.remainder # 0
    /\ first(Not(Top.visited)) = None
    /\ frames' = Pop
    /\ UNCHANGED << known_cards, hero_cards, visited_community_cards, community_cards,
                    villain_ranges, hand_ranking_scores, total, wins, ties, calcPc,
                    arg_community_cards, leaf_boards, result >>
    /\ UNCHANGED << evalVars, rankVars, keyVars, tableVars, convVars, maskVars, rangeVars, deckVars, deck, rounds, round >>

\* players: the closure returns early on a hand that holds a known card
PlayerSkip ==
    /\ calcPc = "run" /\ frames # << >>
    /\ Top.fn = "players" /\ next_hand(Top) # NoHand
    /\ hand_collides(Top.cards, next_hand(Top))
    /\ frames' = Pop \o << [ Top EXCEPT !.next = @ + 1 ] >>
    /\ UNCHANGED << known_cards, hero_cards, visited_community_cards, community_cards,
                    villain_ranges, hand_ranking_scores, total, wins, ties, calcPc,
                    arg_community_cards, leaf_boards, result >>
    /\ UNCHANGED << evalVars, rankVars, keyVars, tableVars, convVars, maskVars, rangeVars, deckVars, deck, rounds, round >>

\* the score and the known cards the closure of players sets for a hand
player_score(hand) ==
    score_fast(with(with(community_cards, Hand_high(hand)), Hand_low(hand)))

\* players extending self.known_cards, whatever it holds, in place of the
\* current_known_cards captured on entry
PlayerHand_stale_known ==
    /\ calcPc = "run" /\ frames # << >>
    /\ Top.fn = "players" /\ next_hand(Top) # NoHand
    /\ ~ hand_collides(Top.cards, next_hand(Top))
    /\ Top.remainder # 0
    /\ LET hand == next_hand(Top)
           known == with(with(known_cards, Hand_high(hand)), Hand_low(hand))
       IN  /\ hand_ranking_scores' =
                [ hand_ranking_scores EXCEPT ![player_index(Top) + 2] = player_score(hand) ]
           /\ known_cards' = known
           /\ frames' = Pop \o << [ Top EXCEPT !.next = @ + 1 ],
                                  Frame("players", Top.remainder - 1, known, EMPTY, 1) >>
    /\ UNCHANGED << hero_cards, visited_community_cards, community_cards, villain_ranges,
                    total, wins, ties, calcPc, arg_community_cards, leaf_boards, result >>
    /\ UNCHANGED << evalVars, rankVars, keyVars, tableVars, convVars, maskVars, rangeVars, deckVars, deck, rounds, round >>

\* players: the closure on a free hand, up to the recursive call
PlayerHand ==
    /\ calcPc = "run" /\ frames # << >>
    /\ Top.fn = "players" /\ next_hand(Top) # NoHand
    /\ ~ hand_collides(Top.cards, next_hand(Top))
    /\ Top.remainder # 0
    /\ LET hand == next_hand(Top)
           known == with(with(Top.cards, Hand_high(hand)), Hand_low(hand))
       IN  /\ hand_ranking_scores' =
                [ hand_ranking_scores EXCEPT ![player_index(Top) + 2] = player_score(hand) ]
           /\ known_cards' = known
           /\ frames' = Pop \o << [ Top EXCEPT !.next = @ + 1 ],
                                  Frame("players", Top.remainder - 1, known, EMPTY, 1) >>
    /\ UNCHANGED << hero_cards, visited_community_cards, community_cards, villain_ranges,
                    total, wins, ties, calcPc, arg_community_cards, leaf_boards, result >>
    /\ UNCHANGED << evalVars, rankVars, keyVars, tableVars, convVars, maskVars, rangeVars, deckVars, deck, rounds, round >>

\* players: the closure on a free hand of the last villain, with the showdown
PlayerShowdown ==
    /\ calcPc = "run" /\ frames # << >>
    /\ Top.fn = "players" /\ next_hand(Top) # NoHand
    /\ ~ hand_collides(Top.cards, next_hand(Top))
    /\ Top.remainder = 0
    /\ LET hand == next_hand(Top)
           scores == [ hand_ranking_scores EXCEPT ![player_index(Top) + 2] = player_score(hand) ]
       IN  /\ hand_ranking_scores' = scores
           /\ known_cards' = with(with(Top.cards, Hand_high(hand)), Hand_low(hand))
           /\ total' = total + 1
           /\ wins' = showdown_wins(scores, wins)
           /\ ties' = showdown_ties(scores, ties)
           /\ frames' = Pop \o << [ Top EXCEPT !.next = @ + 1 ] >>
    /\ UNCHANGED << hero_cards, visited_community_cards, community_cards, villain_ranges,
                    calcPc, arg_community_cards, leaf_boards, result >>
    /\ UNCHANGED << evalVars, rankVars, keyVars, tableVars, convVars, maskVars, rangeVars, deckVars, deck, rounds, round >>

\* players: for_each_hand is over, the call returns
PlayersReturn ==
    /\ calcPc = "run" /\ frames # << >>
    /\ Top.fn = "players" /\ next_hand(Top) = NoHand
    /\ frames' = Pop
    /\ UNCHANGED << known_cards, hero_cards, visited_community_cards, community_cards,
                    villain_ranges, hand_ranking_scores, total, wins, ties, calcPc,
                    arg_community_cards, leaf_boards, result >>
    /\ UNCHANGED << evalVars, rankVars, keyVars, tableVars, convVars, maskVars, rangeVars, deckVars, deck, rounds, round >>

\* EquityCalculator::calc after community_cards returned
Finish ==
    /\ calcPc = "run" /\ frames = << >>
    /\ calcPc' = IF total # 0 THEN "some" ELSE "none"
    /\ result' = IF total # 0 THEN Equity_from_total_wins_ties(total, wins, ties)
                  ELSE NoEquities
    /\ UNCHANGED << known_cards, hero_cards, visited_community_cards, community_cards,
                    villain_ranges, hand_ranking_scores, total, wins, ties, frames,
                    arg_community_cards, leaf_boards >>
    /\ UNCHANGED << evalVars, rankVars, keyVars, tableVars, convVars, maskVars, rangeVars, deckVars, deck, rounds, round >>

----------------------------------------------------------------------------
(* Calls of Equity::calc *)

RangeOf(entries) ==
    LET RECURSIVE add_from(_, _)
        add_from(table, i) ==
            IF i > Len(entries) THEN table
            ELSE add_from(RangeTable_add(table, entries[i]), i + 1)
    IN  add_from(RangeTable_empty, 1)

RangeAA == RangeOf(<< RangeEntry(Ace, Ace, FALSE) >>)

RangeKK == RangeOf(<< RangeEntry(King, King, FALSE) >>)

RangeQJo == RangeOf(<< RangeEntry(Queen, Jack, FALSE) >>)

RangeAKsQQ == RangeOf(<< RangeEntry(Ace, King, TRUE), RangeEntry(Queen, Queen, FALSE) >>)

Call(community, hero, ranges) == [ community |-> community, hero |-> hero, ranges |-> ranges ]

BoardSevens ==
    { Card_of(Seven, Clubs), Card_of(Seven, Diamonds), Card_of(Two, Hearts),
      Card_of(Five, Spades) }

BoardRoyal ==
    { Card_of(Ten, Spades), Card_of(Jack, Spades), Card_of(Queen, Spades),
      Card_of(King, Spades) }

\* The calls, from the scenarios of the specification: a set of sevens against
\* kings on the turn; a royal flush on the board but for the ace; a nut flush
\* against QJo; two villains whose hands can share a card; a board that ties three
\* players; a board that leaves the villain no hand; a hero who holds a board
\* card; eight full ranges before the flop; a flop; three villains.
Calls ==
    << Call(BoardSevens, { Card_of(Seven, Hearts), Card_of(Seven, Spades) }, << RangeKK >>),
       Call(BoardRoyal, { Card_of(Ace, Diamonds), Card_of(King, Diamonds) }, << RangeAA >>),
       Call({ Card_of(Two, Spades), Card_of(Five, Spades), Card_of(Eight, Spades),
              Card_of(Ten, Spades), Card_of(King, Diamonds) },
            { Card_of(Ace, Spades), Card_of(King, Spades) }, << RangeQJo >>),
       Call(BoardSevens, { Card_of(Ace, Hearts), Card_of(Ace, Diamonds) },
            << RangeKK, RangeAKsQQ >>),
       Call(BoardRoyal \cup { Card_of(Ace, Spades) },
            { Card_of(Two, Diamonds), Card_of(Three, Diamonds) }, << RangeAA, RangeKK >>),
       Call({ Card_of(King, Spades), Card_of(King, Hearts), Card_of(King, Diamonds),
              Card_of(King, Clubs), Card_of(Two, Spades) },
            { Card_of(Ace, Spades), Card_of(Ace, Diamonds) }, << RangeKK >>),
       Call(BoardRoyal \cup { Card_of(Ace, Spades) },
            { Card_of(Ace, Spades), Card_of(King, Diamonds) }, << RangeAA >>),
       Call(EMPTY, { Card_of(Ace, Spades), Card_of(King, Spades) },
            [ i \in 1 .. 8 |-> RangeTable_full ]),
       Call({ Card_of(Two, Clubs), Card_of(Seven, Diamonds), Card_of(Nine, Hearts) },
            { Card_of(Ace, Spades), Card_of(King, Spades) }, << RangeAA >>),
       Call(BoardSevens \cup { Card_of(Nine, Clubs) },
            { Card_of(Seven, Hearts), Card_of(Seven, Spades) },
            << RangeKK, RangeKK, RangeAA >>) >>

NumCalls == 9

InitCalc ==
    /\ EvalIdle /\ RankIdle /\ MaskIdle /\ RangeIdle /\ DeckIdle /\ KeyIdle /\ TableIdle /\ ConvIdle
    /\ result = << >> /\ leaf_boards = << >>
    /\ \E n \in 1 .. NumCalls :
        /\ community_cards = Calls[n].community
        /\ arg_community_cards = Calls[n].community
        /\ hero_cards = Calls[n].hero
        /\ villain_ranges = Calls[n].ranges
    /\ known_cards = EMPTY /\ visited_community_cards = EMPTY
    /\ hand_ranking_scores = << >>
    /\ total = 0 /\ wins = << >> /\ ties = << >> /\ frames = << >>
    /\ calcPc = "idle"
    /\ deck = NoDeck /\ rounds = 0 /\ round = 0

NextCalc ==
    \/ New \/ Calc \/ CommunityLeaf \/ CommunityPick \/ CommunityReturn
    \/ PlayerSkip \/ PlayerHand \/ PlayerShowdown \/ PlayersReturn \/ Finish

SpecCalc == InitCalc /\ [][NextCalc]_vars

----------------------------------------------------------------------------
(* equity.rs: Deck and Equity::simulate.  The random generator is a choice:  *)
(* of the order the shuffle leaves, and of the index each draw takes.        *)

\* Card::all(): the cards in the order of the suits and, in a suit, the ranks
Card_all == [ i \in 1 .. CardCOUNT |-> Card_of((i - 1) % RankCOUNT, (i - 1) \div RankCOUNT) ]

Reverse(seq) == [ i \in 1 .. Len(seq) |-> seq[Len(seq) + 1 - i] ]

\* the orders cards[..index].shuffle(rng) may leave, of which two are taken
ShuffleOutcomes(seq) == { seq, Reverse(seq) }

\* Deck::from_cards before the shuffle; cards holds the first max_len entries
\* of the array, the only ones read
Deck_unknown_cards(known) == SelectSeq(Card_all, LAMBDA card : ~ has(known, card))

Deck_of(cards) == [ cards |-> cards, max_len |-> Len(cards), len |-> Len(cards) ]

\* a reset that leaves the live length where the last round left it
Deck_reset_keeps_len(d) == d

Deck_reset(d) == [ d EXCEPT !.len = d.max_len ]

\* the indices rng.gen_range(0..len) may return, of which three are taken
RngPicks == { "first", "middle", "last" }

rng_index(pick, len) ==
    CASE pick = "first" -> 0
      [] pick = "middle" -> len \div 2
      [] pick = "last" -> len - 1

\* Deck::draw with the index the generator returned (len is never 0 here:
\* at most 21 of at least 45 cards are drawn between two resets)
Deck_draw_card(d, index) == d.cards[index + 1]

\* the live length shrinks but the drawn card stays where it is
Deck_draw_no_swap(d, index) == [ d EXCEPT !.len = @ - 1 ]

\* the last live card is copied over the drawn one and stays where it is
Deck_draw_copy_down(d, index) ==
    [ d EXCEPT !.cards = [ @ EXCEPT ![index + 1] = d.cards[d.len] ], !.len = @ - 1 ]

Deck_draw(d, index) ==
    [ d EXCEPT !.cards = [ @ EXCEPT ![index + 1] = d.cards[d.len],
                                    ![d.len] = d.cards[index + 1] ],
               !.len = @ - 1 ]

\* simulate, the draws of the community cards of one round
RECURSIVE sim_community(_, _, _, _, _)
sim_community(d, community, picks, p, n) ==
    IF n = 0 THEN [ deck |-> d, community |-> community ]
    ELSE LET index == rng_index(picks[p], d.len)
         IN  sim_community(Deck_draw(d, index), try_add(community, Deck_draw_card(d, index)),
                           picks, p + 1, n - 1)

\* simulate, the loop over the villains of one round: ok is FALSE when a drawn
\* hand is outside its range and the round is abandoned
RECURSIVE sim_players(_, _, _, _, _, _)
sim_players(d, community, scores, picks, p, i) ==
    IF i > Len(villain_ranges) THEN [ deck |-> d, scores |-> scores, ok |-> TRUE ]
    ELSE LET index_a == rng_index(picks[p], d.len)
             a == Deck_draw_card(d, index_a)
             d_a == Deck_draw(d, index_a)
             index_b == rng_index(picks[p + 1], d_a.len)
             b == Deck_draw_card(d_a, index_b)
             d_b == Deck_draw(d_a, index_b)
             hand == Hand_of_cards(a, b)
         IN  IF ~ RangeTable_contains(villain_ranges[i], hand)
                THEN [ deck |-> d_b, scores |-> scores, ok |-> FALSE ]
                ELSE sim_players(d_b, community,
                        [ scores EXCEPT ![i + 1] =
                            score_fast(with(with(community, Hand_high(hand)), Hand_low(hand))) ],
                        picks, p + 2, i + 1)

\* the number of draws of a round that is not abandoned
sim_draws == (5 - count(arg_community_cards)) + 2 * Len(villain_ranges)

\* Equity::simulate up to the loop over the rounds
SimStart ==
    /\ calcPc = "sim_idle"
    /\ IF check_input(arg_community_cards, hero_cards, villain_ranges)
        THEN /\ total' = 0
             /\ hand_ranking_scores' = [ i \in 1 .. Len(villain_ranges) + 1 |-> ScoreZERO ]
             /\ wins' = [ i \in 1 .. Len(villain_ranges) + 1 |-> 0 ]
             /\ ties' = [ i \in 1 .. Len(villain_ranges) + 1 |-> 0 ]
             /\ \E cards \in ShuffleOutcomes(
                        Deck_unknown_cards(BitOr(arg_community_cards, hero_cards))) :
                    deck' = Deck_of(cards)
             /\ calcPc' = "sim_loop"
        ELSE /\ calcPc' = "sim_panic"
             /\ UNCHANGED << total, hand_ranking_scores, wins, ties, deck >>
    /\ UNCHANGED << known_cards, hero_cards, visited_community_cards, community_cards,
                    villain_ranges, frames, arg_community_cards, leaf_boards, result, rounds, round >>
    /\ UNCHANGED << evalVars, rankVars, keyVars, tableVars, convVars, maskVars, rangeVars, deckVars >>

\* Equity::simulate, one round
SimRound ==
    /\ calcPc = "sim_loop"
    /\ round < rounds
    /\ \E picks \in [ 1 .. sim_draws -> RngPicks ] :
        LET drawn == sim_community(Deck_reset(deck), arg_community_cards, picks, 1,
                                   5 - count(arg_community_cards))
            scores == [ hand_ranking_scores EXCEPT
                            ![1] = score_fast(BitOr(drawn.community, hero_cards)) ]
            played == sim_players(drawn.deck, drawn.community, scores, picks,
                                  6 - count(arg_community_cards), 1)
        IN  /\ deck' = played.deck
            /\ community_cards' = drawn.community
            /\ hand_ranking_scores' = played.scores
            /\ IF played.ok
                THEN /\ total' = total + 1
                     /\ wins' = showdown_wins(played.scores, wins)
                     /\ ties' = showdown_ties(played.scores, ties)
                ELSE UNCHANGED << total, wins, ties >>
    /\ round' = round + 1
    /\ UNCHANGED << known_cards, hero_cards, visited_community_cards, villain_ranges,
                    frames, calcPc, arg_community_cards, leaf_boards, result, rounds >>
    /\ UNCHANGED << evalVars, rankVars, keyVars, tableVars, convVars, maskVars, rangeVars, deckVars >>

\* Equity::simulate after the last round
SimFinish ==
    /\ calcPc = "sim_loop"
    /\ round = rounds
    /\ calcPc' = IF total = 0 THEN "sim_none" ELSE "sim_some"
    /\ result' = IF total = 0 THEN NoEquities
                  ELSE Equity_from_total_wins_ties(total, wins, ties)
    /\ UNCHANGED << known_cards, hero_cards, visited_community_cards, community_cards,
                    villain_ranges, hand_ranking_scores, total, wins, ties, frames,
                    arg_community_cards, leaf_boards, deck, rounds, round >>
    /\ UNCHANGED << evalVars, rankVars, keyVars, tableVars, convVars, maskVars, rangeVars, deckVars >>

----------------------------------------------------------------------------
(* Calls of Equity::simulate *)

RangeA2o == RangeOf(<< RangeEntry(Ace, Two, FALSE) >>)

SimCall(community, hero, ranges, n) ==
    [ community |-> community, hero |-> hero, ranges |-> ranges, rounds |-> n ]

\* a board that ties all players; a hero who wins against a narrow range, on
\* the river and on the turn; no round at all; two villains
SimCalls ==
    << SimCall(BoardRoyal \cup { Card_of(Ace, Spades) },
               { Card_of(Two, Diamonds), Card_of(Three, Diamonds) }, << RangeTable_full >>, 2),
       SimCall(BoardSevens \cup { Card_of(Nine, Clubs) },
               { Card_of(Seven, Hearts), Card_of(Seven, Spades) }, << RangeA2o >>, 3),
       SimCall(BoardSevens, { Card_of(Seven, Hearts), Card_of(Seven, Spades) },
               << RangeA2o >>, 2),
       SimCall(BoardSevens, { Card_of(Seven, Hearts), Card_of(Seven, Spades) },
               << RangeA2o >>, 0),
       SimCall(BoardSevens \cup { Card_of(Nine, Clubs) },
               { Card_of(Ace, Hearts), Card_of(Ace, Diamonds) },
               << RangeTable_full, RangeTable_full >>, 1) >>

NumSimCalls == 4

InitSim ==
    /\ EvalIdle /\ RankIdle /\ MaskIdle /\ RangeIdle /\ DeckIdle /\ KeyIdle /\ TableIdle /\ ConvIdle
    /\ result = << >> /\ leaf_boards = << >>
    /\ \E n \in 1 .. NumSimCalls :
        /\ community_cards = SimCalls[n].community
        /\ arg_community_cards = SimCalls[n].community
        /\ hero_cards = SimCalls[n].hero
        /\ villain_ranges = SimCalls[n].ranges
        /\ rounds = SimCalls[n].rounds
    /\ known_cards = EMPTY /\ visited_community_cards = EMPTY
    /\ hand_ranking_scores = << >>
    /\ total = 0 /\ wins = << >> /\ ties = << >> /\ frames = << >>
    /\ calcPc = "sim_idle"
    /\ deck = NoDeck /\ round = 0

NextSim == SimStart \/ SimRound \/ SimFinish

SpecSim == InitSim /\ [][NextSim]_vars

\* calls of Equity::calc and of Equity::simulate
InitEquity == InitCalc \/ InitSim

NextEquity == NextCalc \/ NextSim

SpecEquity == InitEquity /\ [][NextEquity]_vars

----------------------------------------------------------------------------
(* Queries with inputs of every shape, valid or not, up to the return of     *)
(* check_input in EquityCalculator::new and in Equity::simulate              *)

MaxBoard == 6

MaxHero == 3

MaxVillains == 9

\* boards of 0 to MaxBoard cards
InputBoards == { DeckPrefix(k) : k \in 0 .. MaxBoard }

\* hero cards: 1 to MaxHero of four cards, the first of them a board card
InputHeroes ==
    { h \in SUBSET { DeckOrder[1], DeckOrder[9], DeckOrder[10], DeckOrder[11] } :
        Cardinality(h) \in 1 .. MaxHero }

\* 0 to MaxVillains ranges, all of them AA or the last of them empty
InputRanges ==
    { [ i \in 1 .. k |-> RangeAA ] : k \in 0 .. MaxVillains }
        \cup { [ i \in 1 .. k |-> IF i = k THEN RangeTable_empty ELSE RangeAA ] :
                  k \in 1 .. MaxVillains }

InitInput ==
    /\ EvalIdle /\ RankIdle /\ MaskIdle /\ RangeIdle /\ DeckIdle /\ KeyIdle /\ TableIdle /\ ConvIdle
    /\ result = << >> /\ leaf_boards = << >>
    /\ arg_community_cards \in InputBoards
    /\ community_cards = arg_community_cards
    /\ hero_cards \in InputHeroes
    /\ villain_ranges \in InputRanges
    /\ rounds = 0
    /\ known_cards = EMPTY /\ visited_community_cards = EMPTY
    /\ hand_ranking_scores = << >>
    /\ total = 0 /\ wins = << >> /\ ties = << >> /\ frames = << >>
    /\ calcPc \in { "idle", "sim_idle" }
    /\ deck = NoDeck /\ round = 0

NextInput == New \/ SimStart

SpecInput == InitInput /\ [][NextInput]_vars

----------------------------------------------------------------------------
(* equity.rs: a Deck on its own, under any sequence of draw, hand and reset. *)
(* deckRet holds the name of the last operation and what it returned.        *)

\* the cards outside the excluded set are chosen among the first MaxLive
\* cards of DeckOrder
MaxLive == 4

MaxDeckOps == 5

ExcludedSets == { AllCards \ live : live \in SUBSET DeckPrefix(MaxLive) }

\* the indices rng.gen_range(0..len) returns here
draw_indices(len) == { rng_index(pick, len) : pick \in RngPicks }

\* Deck::from_cards
DeckFromCards ==
    /\ deckRet = << >>
    /\ \E known \in ExcludedSets :
        /\ excluded' = known
        /\ \E cards \in ShuffleOutcomes(Deck_unknown_cards(known)) : deck' = Deck_of(cards)
    /\ deckRet' = << "from_cards" >>
    /\ UNCHANGED << returned, deckOps >>
    /\ UNCHANGED << known_cards, hero_cards, visited_community_cards, community_cards,
                    villain_ranges, hand_ranking_scores, total, wins, ties, frames, calcPc,
                    arg_community_cards, leaf_boards, rounds, round, result >>
    /\ UNCHANGED << evalVars, rankVars, keyVars, tableVars, convVars, maskVars, rangeVars >>

\* Deck::draw
DeckDraw ==
    /\ deckRet # << >> /\ deckOps < MaxDeckOps
    /\ IF deck.len = 0
        THEN /\ deckRet' = << "draw", None >>
             /\ UNCHANGED << deck, returned >>
        ELSE \E index \in draw_indices(deck.len) :
                /\ deckRet' = << "draw", Deck_draw_card(deck, index) >>
                /\ deck' = Deck_draw(deck, index)
                /\ returned' = Append(returned, Deck_draw_card(deck, index))
    /\ deckOps' = deckOps + 1
    /\ UNCHANGED << excluded, known_cards, hero_cards, visited_community_cards,
                    community_cards, villain_ranges, hand_ranking_scores, total, wins, ties,
                    frames, calcPc, arg_community_cards, leaf_boards, rounds, round, result >>
    /\ UNCHANGED << evalVars, rankVars, keyVars, tableVars, convVars, maskVars, rangeVars >>

\* Deck::hand: two draws; the ? operator returns None as soon as one fails
DeckHand ==
    /\ deckRet # << >> /\ deckOps < MaxDeckOps
    /\ IF deck.len = 0
        THEN /\ deckRet' = << "hand", NoHand >>
             /\ UNCHANGED << deck, returned >>
        ELSE \E index_a \in draw_indices(deck.len) :
                LET a == Deck_draw_card(deck, index_a)
                    d_a == Deck_draw(deck, index_a)
                IN  IF d_a.len = 0
                        THEN /\ deckRet' = << "hand", NoHand >>
                             /\ deck' = d_a
                             /\ returned' = Append(returned, a)
                        ELSE \E index_b \in draw_indices(d_a.len) :
                                LET b == Deck_draw_card(d_a, index_b)
                                IN  /\ deckRet' = << "hand", Hand_of_cards(a, b) >>
                                    /\ deck' = Deck_draw(d_a, index_b)
                                    /\ returned' = returned \o << a, b >>
    /\ deckOps' = deckOps + 1
    /\ UNCHANGED << excluded, known_cards, hero_cards, visited_community_cards,
                    community_cards, villain_ranges, hand_ranking_scores, total, wins, ties,
                    frames, calcPc, arg_community_cards, leaf_boards, rounds, round, result >>
    /\ UNCHANGED << evalVars, rankVars, keyVars, tableVars, convVars, maskVars, rangeVars >>

\* Deck::reset
DeckReset ==
    /\ deckRet # << >> /\ deckOps < MaxDeckOps
    /\ deck' = Deck_reset(deck)
    /\ returned' = << >>
    /\ deckRet' = << "reset" >>
    /\ deckOps' = deckOps + 1
    /\ UNCHANGED << excluded, known_cards, hero_cards, visited_community_cards,
                    community_cards, villain_ranges, hand_ranking_scores, total, wins, ties,
                    frames, calcPc, arg_community_cards, leaf_boards, rounds, round, result >>
    /\ UNCHANGED << evalVars, rankVars, keyVars, tableVars, convVars, maskVars, rangeVars >>

InitDeck == EvalIdle /\ RankIdle /\ MaskIdle /\ CalcIdle /\ RangeIdle /\ DeckIdle /\ KeyIdle /\ TableIdle /\ ConvIdle

NextDeck == DeckFromCards \/ DeckDraw \/ DeckHand \/ DeckReset

SpecDeck == InitDeck /\ [][NextDeck]_vars

----------------------------------------------------------------------------
(* equity.rs: the conversion of the u64 tallies to f64.  A u64 is the set   *)
(* of the positions of its one-bits; an f64 that holds an integer is the    *)
(* set of the positions of the one-bits of that integer.                    *)

\* try_u64_to_f64: the mask test against F64_MAX_SAFE_INT - 1, then the cast
\* n as f64, which rounds n to 53 significant bits, ties to even
try_u64_to_f64(n) ==
    LET F64_MAX_SAFE_INT == U64_shl({1}, 53)
        F64_MAX_SAFE_INT_minus_1 == 0 .. (Max(F64_MAX_SAFE_INT) - 1)
        shift == Max(n) - 52
        kept == { b \in n : b >= shift }
        round_up == /\ (shift - 1) \in n
                    /\ \/ { b \in n : b < shift - 1 } # {}
                       \/ shift \in n
        carry_to == CHOOSE b \in shift .. 64 :
                        b \notin kept /\ \A c \in shift .. (b - 1) : c \in kept
        n_as_f64 == IF n = {} \/ shift <= 0 THEN n
                    ELSE IF round_up THEN { b \in kept : b > carry_to } \cup {carry_to}
                    ELSE kept
    IN  IF BitAnd(F64_MAX_SAFE_INT_minus_1, n) # n THEN NoneSet ELSE n_as_f64

\* The arguments: every combination of the bits 52, 53, 54 and 63 with the
\* ConvLowBits lowest bits
ConvLowBits == 3

ConvInputs ==
    { hi \cup lo : hi \in SUBSET {52, 53, 54, 63}, lo \in SUBSET (0 .. ConvLowBits - 1) }

Convert ==
    /\ convPc = 0
    /\ conv_ret' = try_u64_to_f64(conv_n)
    /\ convPc' = 1
    /\ UNCHANGED << conv_n, evalVars, rankVars, keyVars, tableVars, maskVars, calcVars, rangeVars, deckVars >>

InitConv ==
    /\ EvalIdle /\ RankIdle /\ MaskIdle /\ CalcIdle /\ RangeIdle /\ DeckIdle /\ KeyIdle /\ TableIdle
    /\ conv_n \in ConvInputs /\ conv_ret = << >> /\ convPc = 0

NextConv == Convert

SpecConv == InitConv /\ [][NextConv]_vars

----------------------------------------------------------------------------
(* cards.rs: counts_n_fast on card sets of 0 to 7 cards *)

KeyDeckSize == 10

KeyCardSets == { c \in SUBSET DeckPrefix(KeyDeckSize) : Cardinality(c) <= 7 }

CountsNFast ==
    /\ keyPc = 0
    /\ key_n' = counts_n_fast(key_cards)
    /\ keyPc' = 1
    /\ UNCHANGED << key_cards, evalVars, rankVars, tableVars, convVars, maskVars, calcVars,
                    rangeVars, deckVars >>

InitKey ==
    /\ EvalIdle /\ RankIdle /\ MaskIdle /\ CalcIdle /\ RangeIdle /\ DeckIdle /\ ConvIdle
    /\ TableIdle
    /\ key_cards \in KeyCardSets /\ key_n = {} /\ keyPc = 0

NextKey == CountsNFast

SpecKey == InitKey /\ [][NextKey]_vars

----------------------------------------------------------------------------
(* cards.rs: calls of init_score_map and of the table lookup of score_fast, *)
(* in any order, until one of them panics                                   *)

\* the cards score_fast is called with in a run of the program: 5 to 7 of
\* nine cards of the ranks Ten to Ace
TablePool ==
    { Card_of(Ten, Spades), Card_of(Jack, Spades), Card_of(Queen, Spades),
      Card_of(King, Spades), Card_of(Ace, Spades), Card_of(Ace, Hearts),
      Card_of(Ace, Diamonds), Card_of(Ace, Clubs), Card_of(King, Hearts) }

TableHands == HandsOf(TablePool)

\* init_score_map without its assertion: the new map replaces the table
InitScoreMap_no_assert ==
    /\ ~ table_panic
    /\ table_op' = "init_score_map"
    /\ CARDS_SCORE_MAP' = [ some |-> TRUE, map |-> init_score_map_built.map ]
    /\ table_panic' = ~ init_score_map_built.ok
    /\ UNCHANGED << table_cards, table_score >>
    /\ UNCHANGED << evalVars, rankVars, keyVars, convVars, maskVars, calcVars, rangeVars, deckVars >>

InitScoreMap ==
    /\ ~ table_panic
    /\ table_op' = "init_score_map"
    /\ IF init_score_map_built.ok /\ ~ CARDS_SCORE_MAP.some
        THEN /\ CARDS_SCORE_MAP' = [ some |-> TRUE, map |-> init_score_map_built.map ]
             /\ table_panic' = FALSE
        ELSE /\ CARDS_SCORE_MAP' = CARDS_SCORE_MAP
             /\ table_panic' = TRUE
    /\ UNCHANGED << table_cards, table_score >>
    /\ UNCHANGED << evalVars, rankVars, keyVars, convVars, maskVars, calcVars, rangeVars, deckVars >>

\* score_fast up to the read of the table: Self::cards_score_map()[&counts_n]
ScoreFastLookup ==
    /\ ~ table_panic
    /\ LET counts_n_ == counts_n_fast(table_cards)
       IN  IF CARDS_SCORE_MAP.some /\ counts_n_ \in DOMAIN CARDS_SCORE_MAP.map
            THEN /\ table_score' = CARDS_SCORE_MAP.map[counts_n_]
                 /\ table_panic' = FALSE
            ELSE /\ table_score' = table_score
                 /\ table_panic' = TRUE
    /\ table_op' = "score_fast"
    /\ UNCHANGED << CARDS_SCORE_MAP, table_cards >>
    /\ UNCHANGED << evalVars, rankVars, keyVars, convVars, maskVars, calcVars, rangeVars, deckVars >>

InitTable ==
    /\ EvalIdle /\ RankIdle /\ MaskIdle /\ CalcIdle /\ RangeIdle /\ DeckIdle /\ KeyIdle /\ ConvIdle
    /\ CARDS_SCORE_MAP = NoScoreMap
    /\ table_op = "" /\ table_cards \in TableHands /\ table_score = ScoreZERO
    /\ table_panic = FALSE

NextTable == InitScoreMap \/ ScoreFastLookup

SpecTable == InitTable /\ [][NextTable]_vars

----------------------------------------------------------------------------
(* Standard poker rules, as a reference: the value of a five-card hand and   *)
(* the best value over all five-card subsets of a card set.                  *)

RefHighCard == HighCard.tag
RefOnePair == OnePair(Two).tag
RefTwoPair == TwoPair(Two, Two).tag
RefThreeOfAKind == ThreeOfAKind(Two).tag
RefStraight == Straight.tag
RefFlush == Flush.tag
RefFullHouse == FullHouse(Two, Two).tag
RefFourOfAKind == FourOfAKind(Two).tag
RefStraightFlush == StraightFlush.tag
RefRoyalFlush == RoyalFlush.tag

RefRanks(s) == { Card_rank(c) : c \in s }

RefCount(s, r) == Cardinality({ c \in s : Card_rank(c) = r })

RefIsFlush(s) == Cardinality({ Card_suite(c) : c \in s }) = 1

RefWheel == {Ace, Two, Three, Four, Five}

RefMin(S) == CHOOSE x \in S : \A y \in S : x <= y

RefIsStraight(s) ==
    LET rs == RefRanks(s)
    IN  Cardinality(rs) = 5 /\ (rs = RefWheel \/ Max(rs) - RefMin(rs) = 4)

\* the top rank of a straight: Five for the wheel, where the Ace counts low
RefStraightTop(s) == IF RefRanks(s) = RefWheel THEN Five ELSE Max(RefRanks(s))

\* the category of five cards, from the sizes of their groups of equal rank
RefCategory(s) ==
    LET groups == Cardinality(RefRanks(s))
        most == Max({ RefCount(s, r) : r \in RefRanks(s) })
        straightp == RefIsStraight(s)
        flushp == RefIsFlush(s)
    IN  IF straightp /\ flushp
        THEN (IF RefStraightTop(s) = Ace THEN RefRoyalFlush ELSE RefStraightFlush)
        ELSE IF most = 4 THEN RefFourOfAKind
        ELSE IF most = 3 /\ groups = 2 THEN RefFullHouse
        ELSE IF flushp THEN RefFlush
        ELSE IF straightp THEN RefStraight
        ELSE IF most = 3 THEN RefThreeOfAKind
        ELSE IF most = 2 /\ groups = 3 THEN RefTwoPair
        ELSE IF most = 2 THEN RefOnePair
        ELSE RefHighCard

\* the ranks of a hand in tie-break order: larger groups first, then higher ranks
RECURSIVE RefOrder(_, _)
RefOrder(s, rs) ==
    IF rs = {} THEN << >>
    ELSE LET key == [ x \in rs |-> RefCount(s, x) * 16 + x ]
             r == CHOOSE x \in rs : \A y \in rs : key[y] <= key[x]
         IN  [ i \in 1 .. (key[r] \div 16) |-> r ] \o RefOrder(s, rs \ {r})

RefTieBreak(s) ==
    IF RefIsStraight(s) THEN << RefStraightTop(s), 0, 0, 0, 0 >>
    ELSE RefOrder(s, RefRanks(s))

\* category and tie-break ranks as one number, most significant first
RefValue5(s) ==
    LET t == RefTieBreak(s)
    IN  ((((RefCategory(s) * 13 + t[1]) * 13 + t[2]) * 13 + t[3]) * 13 + t[4]) * 13 + t[5]

RefFives(h) == { s \in SUBSET h : Cardinality(s) = 5 }

\* the values of the five-card subsets of a card set
RefValues(h) == [ s \in RefFives(h) |-> RefValue5(s) ] @@ << >>

RefValue(h) == LET v == RefValues(h) IN Max({ v[s] : s \in DOMAIN v })

RefBestFive(h) ==
    LET v == RefValues(h)
        best == Max({ v[s] : s \in DOMAIN v })
    IN  CHOOSE s \in DOMAIN v : v[s] = best

RefCategoryOfValue(v) == v \div (13 * 13 * 13 * 13 * 13)

RefBestCategory(h) == RefCategoryOfValue(RefValue(h))

\* the multiset of ranks of the best five cards
RefBestRanks(h) == LET s == RefBestFive(h) IN [ r \in RANKS |-> RefCount(s, r) ]

\* the reference on the sets of the pair specification, tabulated once
ref_value_of == [ h \in PairHands |-> RefValue(h) ] @@ << >>

ref_ranks_of == [ h \in PairHands |-> RefBestRanks(h) ] @@ << >>

\* the category a score encodes: the top four bits of its 12-bit ranking field
Score_category(score) == Score_to_hand_ranking(score).tag

----------------------------------------------------------------------------
(* Claims about the evaluator *)

\* C1: for any two card sets of 5 to 7 cards, score(a) < score(b) exactly when
\* the best five-card hand of a loses to that of b under standard poker rules
\* (the Ace of A-2-3-4-5 counting low).
C1_ScoreOrderIsPokerOrder ==
    evalPc = 2 =>
        (Score_lt(scoreA, scoreB) <=> ref_value_of[handA] < ref_value_of[handB])

\* C2: for every card set of 5 to 7 cards, the category in the score of
\* score_fast and of top5().to_score() is the best category over all five-card
\* subsets.
C2_CategoryIsBest ==
    evalPc = 1 =>
        /\ Score_category(scoreA) = RefBestCategory(handA)
        /\ Score_category(Top5_to_score(topA)) = RefBestCategory(handA)

\* C3: for any two card sets of 5 to 7 cards, the scores are equal exactly when
\* the best five-card hands have the same category and the same multiset of
\* ranks; suits never change the score.
C3_EqualScoreIsSplit ==
    evalPc = 2 =>
        (scoreA = scoreB <=>
            /\ RefCategoryOfValue(ref_value_of[handA]) = RefCategoryOfValue(ref_value_of[handB])
            /\ ref_ranks_of[handA] = ref_ranks_of[handB])

\* C3 witness: two different card sets, not the same ranks in the same suits,
\* that tie with equal scores
C3_Witness ==
    /\ evalPc = 2
    /\ scoreA = scoreB
    /\ handA # handB
    /\ { Card_suite(c) : c \in handA } # { Card_suite(c) : c \in handB }
    /\ ref_ranks_of[handA] = ref_ranks_of[handB]

\* a suit of the card set holds Ten, Jack, Queen, King and Ace
HoldsRoyal(h) ==
    \E suite \in SUITES :
        { Card_of(r, suite) : r \in {Ten, Jack, Queen, King, Ace} } \subseteq h

\* C4: RoyalFlush is reported only when one suit holds Ten to Ace; a card set
\* whose only suited straight is A-2-3-4-5 is reported as StraightFlush.  For
\* score_fast and for top5.
C4_RoyalOnlyForTenToAce ==
    evalPc = 1 =>
        /\ (Score_category(scoreA) = RoyalFlush.tag => HoldsRoyal(handA))
        /\ (topA.ranking.tag = RoyalFlush.tag => HoldsRoyal(handA))

\* the ranks a suit of the card set holds
SuitRanks(h, suite) == { Card_rank(c) : c \in { x \in h : Card_suite(x) = suite } }

\* a set of ranks holds five consecutive ranks or A-2-3-4-5
HoldsStraight(rs) ==
    \/ RefWheel \subseteq rs
    \/ \E low \in Two .. Ten : (low .. (low + 4)) \subseteq rs

SuitedStraight(h) ==
    \E suite \in SUITES :
        /\ Cardinality({ x \in h : Card_suite(x) = suite }) >= 5
        /\ HoldsStraight(SuitRanks(h, suite))

\* C5: StraightFlush or RoyalFlush is returned only if one suit holds at least
\* five of the cards and that suit's ranks contain a straight; a straight of
\* mixed suits beside a flush is reported as Flush.
C5_StraightFlushNeedsSuitedStraight ==
    evalPc = 1 =>
        /\ (Score_category(scoreA) \in {StraightFlush.tag, RoyalFlush.tag}
                => SuitedStraight(handA))
        /\ (topA.ranking.tag \in {StraightFlush.tag, RoyalFlush.tag}
                => SuitedStraight(handA))
        /\ (is_flush(handA) /\ HoldsStraight(RefRanks(handA)) /\ ~ SuitedStraight(handA)
                => Score_category(scoreA) = Flush.tag /\ topA.ranking.tag = Flush.tag)

\* C5 witness: a flush and a straight of mixed suits in one card set, evaluated
C5_Witness ==
    /\ evalPc = 1
    /\ is_flush(handA)
    /\ HoldsStraight(RefRanks(handA))
    /\ ~ SuitedStraight(handA)
    /\ Score_category(scoreA) = Flush.tag

\* the best five cards are a straight that is no flush, with this top rank
BestIsPlainStraight(h, top) ==
    /\ RefCategoryOfValue(ref_value_of[h]) = RefStraight
    /\ RefStraightTop(RefBestFive(h)) = top

\* C6: a hand whose best five cards are the non-flush wheel scores strictly
\* below any hand whose best five cards are a non-flush straight 2-3-4-5-6 or
\* higher.
C6_WheelIsLowestStraight ==
    evalPc = 2 =>
        (BestIsPlainStraight(handA, Five)
            /\ RefCategoryOfValue(ref_value_of[handB]) = RefStraight
            /\ RefStraightTop(RefBestFive(handB)) >= Six
         => Score_lt(scoreA, scoreB))

----------------------------------------------------------------------------
(* Claims about straight detection and the card-set algebra *)

\* the five consecutive ranks ending at top
RunTo(top) == (top - 4) .. top

\* the top ranks of the runs of five consecutive ranks a mask holds
RunTops(m) == { top \in Six .. Ace : RunTo(top) \subseteq m }

\* the example of the specification: As2s with the board 3h4d5c6cKh
WheelAndSixHigh ==
    { Card_of(Ace, Spades), Card_of(Two, Spades), Card_of(Three, Hearts),
      Card_of(Four, Diamonds), Card_of(Five, Clubs), Card_of(Six, Clubs),
      Card_of(King, Hearts) }

WheelAndSixHighScore == score_fast(WheelAndSixHigh)

\* C7: straight detection returns None when the mask holds neither five
\* consecutive ranks nor {A,5,4,3,2}; otherwise the five consecutive ranks with
\* the highest top rank, and the wheel only when there are no five consecutive
\* ranks.  As2s with 3h4d5c6cKh scores as a Straight with top rank Six.
C7_HighestStraight ==
    rankPc = 1 =>
        /\ (RunTops(rankMask) = {} /\ ~ (RefWheel \subseteq rankMask)
                => rankStraight = NoneSet)
        /\ (RunTops(rankMask) # {} => rankStraight = RunTo(Max(RunTops(rankMask))))
        /\ (RunTops(rankMask) = {} /\ RefWheel \subseteq rankMask
                => rankStraight = RefWheel)
        /\ (rankMask = by_rank(WheelAndSixHigh)
                => /\ rankStraight = RunTo(Six)
                   /\ Score_category(WheelAndSixHighScore) = Straight.tag
                   /\ WheelAndSixHighScore[2] \div Pow2(16) = Six)

\* C7 witness: the mask of the example, which holds the wheel and 2-3-4-5-6
C7_Witness ==
    /\ rankPc = 1
    /\ rankMask = by_rank(WheelAndSixHigh)
    /\ RefWheel \subseteq rankMask
    /\ rankStraight = RunTo(Six)

\* C8: after any sequence of card-set operations from the empty set, the mask
\* has no bit outside MASK_FULL and count() is the number of cards in the set.
C8_MaskWithinFull ==
    /\ mask \subseteq MASK_FULL
    /\ count(mask) = Cardinality(maskCards)

\* C8 witness: a value NOT produced, cut down by later operations
C8_Witness ==
    /\ maskOps = MaxMaskOps
    /\ count(mask) > 40
    /\ count(mask) < 52

----------------------------------------------------------------------------
(* Claims about the exhaustive enumeration *)

\* the subsets of S with k cards
RECURSIVE RefSubsets(_, _)
RefSubsets(S, k) ==
    IF k = 0 THEN { {} }
    ELSE UNION { { X \cup {c} : X \in RefSubsets({ d \in S : d < c }, k - 1) } : c \in S }

\* the completions of the board to five cards with cards outside board and hero
RefBoards ==
    { arg_community_cards \cup X :
        X \in RefSubsets(AllCards \ (arg_community_cards \cup hero_cards),
                         5 - Cardinality(arg_community_cards)) }

\* the concrete two-card hands of a range, as sets of two cards
RefHands(table) ==
    { h \in RefSubsets(AllCards, 2) :
        \E a \in h, b \in h :
            /\ a # b
            /\ Card_rank(a) >= Card_rank(b)
            /\ contains_entry(table,
                   RangeEntry(Card_rank(a), Card_rank(b), Card_suite(a) = Card_suite(b))) }

\* the sequences of hands of the villains from i on, hands[j] being the hands
\* of the range of villain j, disjoint from used and from each other
RECURSIVE RefVillains(_, _, _)
RefVillains(hands, i, used) ==
    IF i > Len(hands) THEN { << >> }
    ELSE UNION { { << h >> \o t : t \in RefVillains(hands, i + 1, used \cup h) } :
                    h \in { g \in hands[i] : g \cap used = {} } }

\* the tuples (B, h_1, ..., h_n)
RefTuples ==
    LET hands == [ i \in DOMAIN villain_ranges |->
                     { h : h \in RefHands(villain_ranges[i]) } ] @@ << >>
    IN  UNION { { << B, t >> : t \in RefVillains(hands, 1, B \cup hero_cards) } :
                  B \in RefBoards }

\* the scores of hero and villains in a tuple
RefScores(x) ==
    [ i \in 1 .. Len(villain_ranges) + 1 |->
        IF i = 1 THEN score_fast(x[1] \cup hero_cards) ELSE score_fast(x[1] \cup x[2][i - 1]) ]

\* the player who alone holds the maximum score in a tuple, 0 when there is none
RefWinner(x) ==
    LET scores == RefScores(x)
        best == { i \in DOMAIN scores : \A j \in DOMAIN scores : ~ Score_lt(scores[i], scores[j]) }
    IN  IF Cardinality(best) = 1 THEN CHOOSE i \in best : TRUE ELSE 0

RefWinners == [ x \in RefTuples |-> RefWinner(x) ]

\* C9: when calc returns, total is the number of tuples (B, h_1, ..., h_n) of a
\* board completion and one hand per villain range, pairwise disjoint and
\* disjoint from hero and board, and wins[i] is the number of those tuples in
\* which player i alone holds the maximum score.
C9_TotalCountsTuples ==
    calcPc \in { "some", "none" } =>
        LET winner == RefWinners
        IN  /\ total = Cardinality(DOMAIN winner)
            /\ \A i \in DOMAIN wins :
                  wins[i] = Cardinality({ x \in DOMAIN winner : winner[x] = i })

\* C9 witness: calc returned for two villains whose hands can share a card,
\* with showdowns won by the hero and by each villain
C9_Witness ==
    /\ calcPc = "some"
    /\ Len(villain_ranges) = 2
    /\ Cardinality(arg_community_cards) = 4
    /\ \A i \in DOMAIN wins : wins[i] > 0

SumSeq(f) ==
    LET RECURSIVE sum_from(_)
        sum_from(i) == IF i > Len(f) THEN 0 ELSE f[i] + sum_from(i + 1)
    IN  sum_from(1)

\* C10: after every showdown, the wins and the ties (as exact fractions) of all
\* players add up to total.
C10_WinsAndTiesSumToTotal ==
    SumSeq(wins) * TieUnit + SumSeq(ties) = total * TieUnit

\* C10 witness: a result with won and tied showdowns
C10_Witness ==
    /\ calcPc = "some"
    /\ \E i \in DOMAIN wins : wins[i] > 0
    /\ \E i \in DOMAIN ties : ties[i] > 0

----------------------------------------------------------------------------
(* C11 *)

\* the players who hold the maximum of a score vector
BestPlayers(scores) ==
    { i \in DOMAIN scores : \A j \in DOMAIN scores : ~ Score_lt(scores[i], scores[j]) }

\* C11: a showdown (the step that counts one more leaf or round in total)
\* changes the tallies in one of two ways.  With one player at the maximum of
\* the score vector, that player's wins grows by 1 and no other wins entry and
\* no ties entry changes.  With k >= 2 players at the maximum, each of them
\* gains exactly 1/k in ties (k times the gain is one whole point, so half a
\* point for two), no wins entry changes and the players below the maximum
\* keep their ties.
C11_ShowdownCreditsWinOrShares ==
    [][ total' # total =>
          LET best == BestPlayers(hand_ranking_scores')
              k == Cardinality(best)
          IN  /\ total' = total + 1
              /\ DOMAIN wins' = DOMAIN wins /\ DOMAIN ties' = DOMAIN ties
              /\ IF k = 1
                    THEN /\ \A i \in DOMAIN wins :
                              wins'[i] = wins[i] + (IF i \in best THEN 1 ELSE 0)
                         /\ ties' = ties
                    ELSE /\ wins' = wins
                         /\ \A i \in DOMAIN ties :
                              IF i \in best
                                THEN k * (ties'[i] - ties[i]) = TieUnit
                                ELSE ties'[i] = ties[i] ]_vars

\* C11 witness: showdowns of both kinds have happened, one of them a tie of
\* exactly two players, who hold half a point each
C11_Witness ==
    /\ total >= 2
    /\ \E i \in DOMAIN wins : wins[i] > 0
    /\ \E i, j \in DOMAIN ties :
          /\ i # j
          /\ 2 * ties[i] = TieUnit /\ 2 * ties[j] = TieUnit
          /\ \A m \in DOMAIN ties \ { i, j } : ties[m] = 0

----------------------------------------------------------------------------
(* C12 *)

\* u64::MAX = 2^64 - 1 on the limbs of the pre-flight arithmetic
U64_MAX == [ i \in 1 .. Limbs |-> IF i <= 4 THEN LimbBase - 1 ELSE IF i = 5 THEN Pow2(4) - 1 ELSE 0 ]

\* the calls of Calls whose bound total_combos_upper_bound is above u64::MAX
ExceedingCalls ==
    { n \in DOMAIN Calls :
        Big_lt(U64_MAX, total_combos_upper_bound(Calls[n].community, Calls[n].ranges)) }

\* the call in progress is one of them
BoundExceedsU64 ==
    \E n \in ExceedingCalls :
        /\ Calls[n].community = arg_community_cards
        /\ Calls[n].hero = hero_cards
        /\ Calls[n].ranges = villain_ranges

\* C12: once a call of calc is past its pre-flight check and the bound
\* total_combos_upper_bound of its input exceeds u64::MAX, the call has
\* returned None and nothing of the enumeration has happened: no frame of
\* community_cards or players exists, the board is the one of the call, no
\* card beyond board and hero is visited, every score is zero, and total, wins
\* and ties are zero.
C12_RejectedNeverStarts ==
    (calcPc \in { "run", "some", "none", "rejected" } /\ BoundExceedsU64) =>
        /\ calcPc = "rejected"
        /\ result = NoEquities
        /\ frames = << >>
        /\ community_cards = arg_community_cards
        /\ visited_community_cards = arg_community_cards \cup hero_cards
        /\ known_cards = EMPTY
        /\ \A i \in DOMAIN hand_ranking_scores : hand_ranking_scores[i] = ScoreZERO
        /\ total = 0
        /\ \A i \in DOMAIN wins : wins[i] = 0
        /\ \A i \in DOMAIN ties : ties[i] = 0

\* C12 witness: a call whose bound exceeds u64::MAX has returned
C12_Witness ==
    /\ calcPc = "rejected"
    /\ BoundExceedsU64
    /\ Len(wins) = Len(villain_ranges) + 1

----------------------------------------------------------------------------
(* C13 *)

\* C13: a call of calc that passed the pre-flight check returns None exactly
\* when no leaf exists, that is when no board completion has an assignment of
\* one hand per villain range free of collisions with the fixed cards and with
\* each other.  Otherwise it returns one Equity per player, the hero first and
\* the villains in the order of their ranges (entry i holds the showdowns won
\* alone by player i and that player's ties, the hero's score being entry 1
\* of the score vector), and every entry carries the same total, the number
\* of leaves, which is not zero.
C13_NoneIffNoLeaf ==
    calcPc \in { "some", "none" } =>
        LET leaves == Cardinality(RefTuples)
        IN  IF leaves = 0
                THEN calcPc = "none" /\ result = NoEquities
                ELSE /\ calcPc = "some"
                     /\ Len(result) = Len(villain_ranges) + 1
                     /\ \A i \in DOMAIN result :
                          /\ result[i].total = leaves
                          /\ result[i].wins = wins[i]
                          /\ result[i].ties = ties[i]

\* C13 witness: calc walked to the leaf of a full board on which every hand of
\* the villain's range holds a board card, and returned None
C13_Witness ==
    /\ calcPc = "none"
    /\ ~ BoundExceedsU64
    /\ known_cards = arg_community_cards \cup hero_cards
    /\ for_each_hand(villain_ranges[1]) # << >>
    /\ result = NoEquities

----------------------------------------------------------------------------
(* C14, C15 *)

HandsOfSeq(hands) == { hands[i] : i \in DOMAIN hands }

\* C14: on every table, contains accepts a hand of two distinct cards exactly
\* when for_each_hand hands it to the callback, and to_set builds the same set
\* of hands.
C14_ContainsIffEnumerated ==
    rangePc = 4 =>
        /\ \A hand \in AllHands :
              (hand \in rangeContained) <=> (hand \in HandsOfSeq(rangeHands))
        /\ HandsOfSeq(rangeHands) \subseteq AllHands
        /\ rangeSet = HandsOfSeq(rangeHands)

\* C14 witness: the three operations ran on a table of a suited, an offsuit
\* and a pair cell
C14_Witness ==
    /\ rangePc = 4
    /\ \E row, column \in RANKS : row > column /\ column \in rangeTable[row]
    /\ \E row, column \in RANKS : row < column /\ column \in rangeTable[row]
    /\ \E row \in RANKS : row \in rangeTable[row]
    /\ Cardinality(rangeContained) = 4 + 12 + 6
    /\ Len(rangeHands) = 4 + 12 + 6

\* the cell of the matrix a concrete hand belongs to: [high][low] when its
\* cards share the suit, [low][high] otherwise
CellOfHand(hand) ==
    LET ra == Card_rank(hand[1])
        rb == Card_rank(hand[2])
        hi == IF ra >= rb THEN ra ELSE rb
        lo == IF ra >= rb THEN rb ELSE ra
    IN  IF Card_suite(hand[1]) = Card_suite(hand[2]) THEN << hi, lo >> ELSE << lo, hi >>

CellSize(row, column) == IF row > column THEN 4 ELSE IF row < column THEN 12 ELSE 6

TableCells(table) == { cell \in RANKS \X RANKS : cell[2] \in table[cell[1]] }

SumCells(cells) ==
    LET RECURSIVE sum(_)
        sum(S) == IF S = {} THEN 0
                  ELSE LET cell == CHOOSE c \in S : TRUE
                       IN  CellSize(cell[1], cell[2]) + sum(S \ { cell })
    IN  sum(cells)

\* C15: on every table, for_each_hand calls the callback at most once per
\* concrete hand; 4 times for a suited cell, 12 times for an offsuit cell of
\* two ranks and 6 times for a pair cell, and never for a cell that is not set;
\* count_cards returns twice the number of calls.
C15_CellSizes ==
    rangePc = 4 =>
        /\ Cardinality(HandsOfSeq(rangeHands)) = Len(rangeHands)
        /\ \A cell \in RANKS \X RANKS :
              Cardinality({ i \in DOMAIN rangeHands : CellOfHand(rangeHands[i]) = cell })
                = IF cell \in TableCells(rangeTable) THEN CellSize(cell[1], cell[2]) ELSE 0
        /\ rangeCount = 2 * Len(rangeHands)
        /\ rangeCount = 2 * SumCells(TableCells(rangeTable))

\* C15 witness: for_each_hand and count_cards ran on a table of two pair cells
\* and an offsuit cell
C15_Witness ==
    /\ rangePc = 4
    /\ Cardinality({ row \in RANKS : row \in rangeTable[row] }) = 2
    /\ \E row, column \in RANKS : row < column /\ column \in rangeTable[row]
    /\ rangeCount = 2 * (6 + 6 + 12)
    /\ Len(rangeHands) = 6 + 6 + 12

----------------------------------------------------------------------------
(* C16, C17: the range notation, read from the string alone *)

\* the rank a character names in 23456789TJQKA, -1 for any other character
RankOfChar(c) ==
    IF \E i \in DOMAIN RankCharSeq : RankCharSeq[i] = c
        THEN (CHOOSE i \in DOMAIN RankCharSeq : RankCharSeq[i] = c) - 1
        ELSE -1

\* the entries of a string: the pieces between two neighbouring cuts (the
\* commas and the two ends), each with the position of the cut before it
EntriesOf(str) ==
    LET cuts == { 0, Len(str) + 1 } \cup { i \in 1 .. Len(str) : str[i] = "," }
    IN  { << x[1], SubSeq(str, x[1] + 1, x[2] - 1) >> :
            x \in { y \in cuts \X cuts :
                      /\ y[1] < y[2]
                      /\ \A c \in cuts : ~ (y[1] < c /\ c < y[2]) } }

\* an entry of one of the shapes XX, XX+, XYs, XYs+, XYo, XYo+ with ranks in
\* the rank positions and, in a suited or offsuit entry, low below high
WellFormed(def) ==
    /\ Len(def) \in 2 .. 4
    /\ RankOfChar(def[1]) >= 0 /\ RankOfChar(def[2]) >= 0
    /\ IF def[1] = def[2]
          THEN Len(def) = 2 \/ (Len(def) = 3 /\ def[3] = "+")
          ELSE /\ Len(def) >= 3
               /\ def[3] \in { "s", "o" }
               /\ Len(def) = 4 => def[4] = "+"
               /\ RankOfChar(def[2]) < RankOfChar(def[1])

\* the cells << row, column >> a well-formed entry names
CellsOfEntry(def) ==
    LET high == RankOfChar(def[1])
        low == RankOfChar(def[2])
        plus == def[Len(def)] = "+"
    IN  IF def[1] = def[2]
            THEN { << rank, rank >> : rank \in high .. (IF plus THEN 12 ELSE high) }
        ELSE IF def[3] = "s"
            THEN { << high, rank >> : rank \in low .. (IF plus THEN high - 1 ELSE low) }
        ELSE { << rank, high >> : rank \in low .. (IF plus THEN high - 1 ELSE low) }

\* every entry is well-formed and no two entries name the same cell
GoodRange(str) ==
    /\ \A e \in EntriesOf(str) : WellFormed(e[2])
    /\ \A e, f \in EntriesOf(str) :
          e # f => CellsOfEntry(e[2]) \cap CellsOfEntry(f[2]) = {}

\* C16: parse of a string of well-formed entries that name no cell twice
\* returns a table, and the cells set in a table parse returns are exactly
\* the cells the entries name: XX the pair cell of X, XX+ the pair cells from X
\* up to Ace, XYs / XYo the suited / offsuit cell of X and Y, XYs+ / XYo+ the
\* suited / offsuit cells of X with every low rank from Y up to the rank below
\* X; suited cells lie at [high][low], offsuit and pair cells at [low][high].
C16_ParseSetsNamedCells ==
    parsed # NoParse =>
        /\ GoodRange(range_str) => is_ok(parsed)
        /\ is_ok(parsed) =>
              /\ \A e \in EntriesOf(range_str) : WellFormed(e[2])
              /\ TableCells(parsed[2])
                    = UNION { CellsOfEntry(e[2]) : e \in EntriesOf(range_str) }

\* C16 witness: parse returned a table for a string of a rising pair entry
\* and a rising suited entry
C16_Witness ==
    /\ parsed # NoParse /\ is_ok(parsed)
    /\ range_str = << "K", "K", "+", ",", "A", "2", "s", "+" >>
    /\ Cardinality(TableCells(parsed[2])) = 2 + 12

\* C17: parse returns an error, and no table, when an entry has a character
\* that is no rank in a rank position, has none of the six shapes, has low at
\* or above high in a suited or offsuit entry, or names a cell an earlier
\* entry set, alone or through a + expansion.
C17_ParseRejects ==
    (parsed # NoParse /\ ~ GoodRange(range_str)) => parsed = Err

\* C17 witness: parse returned an error for two well-formed entries, the
\* second naming a cell the + expansion of the first had set
C17_Witness ==
    /\ parsed = Err
    /\ range_str = << "K", "K", "+", ",", "A", "A" >>
    /\ \A e \in EntriesOf(range_str) : WellFormed(e[2])

----------------------------------------------------------------------------
(* C18, C19 *)

\* the cards of a hand returned by Deck::hand, none for None
CardsOfHand(hand) == { hand[i] : i \in DOMAIN hand }

\* C18: between two resets, a draw that succeeds (alone or as one of the two
\* draws of hand) returns a card outside the excluded set that no earlier draw
\* since the last reset returned, and shortens the live part by exactly one
\* card; a draw on an empty live part returns None and leaves the deck as it is.
C18_DrawsAreFresh ==
    [][ /\ (deckOps' = deckOps + 1 /\ deckRet'[1] = "draw") =>
              IF deck.len = 0
                THEN deckRet'[2] = None /\ deck' = deck
                ELSE /\ deckRet'[2] \in AllCards \ excluded
                     /\ \A i \in DOMAIN returned : returned[i] # deckRet'[2]
                     /\ deck'.len = deck.len - 1
        /\ (deckOps' = deckOps + 1 /\ deckRet'[1] = "hand") =>
              IF deckRet'[2] = NoHand
                THEN /\ deck.len <= 1
                     /\ deck.len = 0 => deck' = deck
                     /\ deck.len = 1 =>
                          /\ deck'.len = 0
                          /\ \A i \in DOMAIN returned : returned[i] # deck.cards[1]
                ELSE /\ Cardinality(CardsOfHand(deckRet'[2])) = 2
                     /\ CardsOfHand(deckRet'[2]) \subseteq AllCards \ excluded
                     /\ \A i \in DOMAIN returned : returned[i] \notin CardsOfHand(deckRet'[2])
                     /\ deck'.len = deck.len - 2 ]_vars

\* C18 witness: draws emptied the live part since the last reset, and the next
\* draw returned None
C18_Witness ==
    /\ deckRet = << "draw", None >>
    /\ deck.len = 0 /\ deck.max_len >= 2
    /\ Len(returned) = deck.max_len

\* C19: in every state of a Deck built with the excluded set K, the first
\* max_len entries of the array are the 52 - |K| cards outside K, each once,
\* and 0 <= len <= max_len; no operation changes max_len; reset sets len to
\* max_len and leaves the entries and their order as they are.
C19_DeckIsPermutation ==
    /\ [](deckRet # << >> =>
            /\ deck.max_len = 52 - Cardinality(excluded)
            /\ Len(deck.cards) = deck.max_len
            /\ { deck.cards[i] : i \in 1 .. deck.max_len } = AllCards \ excluded
            /\ 0 <= deck.len /\ deck.len <= deck.max_len)
    /\ [][ deckRet # << >> =>
              /\ deck'.max_len = deck.max_len
              /\ deckRet' = << "reset" >> =>
                    deck'.len = deck.max_len /\ deck'.cards = deck.cards ]_vars

\* C19 witness: a reset after draws that left the array in another order
\* than the one the deck was built with
C19_Witness ==
    /\ deckRet = << "reset" >>
    /\ deck.len = deck.max_len /\ deck.max_len >= 3
    /\ deck.cards \notin ShuffleOutcomes(Deck_unknown_cards(excluded))

----------------------------------------------------------------------------
(* C20 *)

\* The cards a round of simulate drew are found in its deck: after the reset
\* the j-th draw of the round puts its card at place max_len - j + 1 of the
\* array, and no later draw of the round moves it.
RoundDraws(d) == d.max_len - d.len

\* the two cards villain i drew in the round, after the cards of the board
RoundHand(d, i) ==
    LET before == (5 - Cardinality(arg_community_cards)) + 2 * (i - 1)
    IN  << d.cards[d.max_len - before], d.cards[d.max_len - before - 1] >>

RoundDrew(d, i) == RoundDraws(d) >= (5 - Cardinality(arg_community_cards)) + 2 * i

HandInRange(table, hand) ==
    LET cell == CellOfHand(hand) IN cell[2] \in table[cell[1]]

Points(wins_, ties_) == SumSeq(wins_) * TieUnit + SumSeq(ties_)

\* C20: a round of simulate in which every villain drew a hand inside that
\* villain's range raises total by exactly 1 and performs one showdown (the
\* tallies gain one point in all); a round in which a villain drew a hand
\* outside its range leaves total, wins and ties as they were.  So total never
\* exceeds the number of rounds, and simulate returns None exactly when total
\* is 0, that is when no round was accepted.
C20_RoundCountsOnlyInRange ==
    /\ [](calcPc \in { "sim_loop", "sim_some", "sim_none" } =>
            /\ total <= round /\ round <= rounds
            /\ calcPc = "sim_none" => (total = 0 /\ result = NoEquities)
            /\ calcPc = "sim_some" =>
                  /\ total > 0
                  /\ Len(result) = Len(villain_ranges) + 1
                  /\ \A i \in DOMAIN result : result[i].total = total)
    /\ [][ round' = round + 1 =>
              IF \A i \in DOMAIN villain_ranges :
                    /\ RoundDrew(deck', i)
                    /\ HandInRange(villain_ranges[i], RoundHand(deck', i))
                THEN /\ total' = total + 1
                     /\ Points(wins', ties') = Points(wins, ties) + TieUnit
                ELSE /\ \E i \in DOMAIN villain_ranges :
                          /\ RoundDrew(deck', i)
                          /\ ~ HandInRange(villain_ranges[i], RoundHand(deck', i))
                     /\ total' = total /\ wins' = wins /\ ties' = ties ]_vars

\* C20 witness: simulate returned a result after rounds of both kinds, one
\* accepted and one abandoned
C20_Witness ==
    /\ calcPc = "sim_some"
    /\ rounds >= 2
    /\ 0 < total /\ total < rounds

----------------------------------------------------------------------------
(* C21 *)

\* C21: try_u64_to_f64 succeeds only for values that fit in 53 bits: it
\* returns None for every n >= 2^53 and n exactly for every n < 2^53.
C21_ConversionFitsIn53Bits ==
    convPc = 1 =>
        IF \E b \in conv_n : b >= 53 THEN conv_ret = NoneSet ELSE conv_ret = conv_n

----------------------------------------------------------------------------
(* C22 *)

\* C22: a query whose input fails a validation (hero not of 2 cards, more than
\* 5 board cards, a hero card on the board, no villain or more than 8, an
\* empty range) never aborts: it is still to be checked or has returned to
\* its caller, and it has computed no tallies.
C22_ValidationFailureIsReported ==
    ~ check_input(arg_community_cards, hero_cards, villain_ranges) =>
        /\ calcPc \in { "idle", "sim_idle", "rejected", "none", "sim_none" }
        /\ total = 0 /\ wins = << >> /\ ties = << >>

----------------------------------------------------------------------------
(* C23 *)

RECURSIVE Binomial(_, _)
Binomial(n, k) == IF k = 0 THEN 1 ELSE (Binomial(n - 1, k - 1) * n) \div k

\* C23: every time community_cards reaches the player stage, the board is a
\* completion of the given board to five cards with cards outside board and
\* hero, and one that did not reach the player stage before; when calc has
\* returned after the enumeration, the player stage was reached C(r, m) times,
\* m = 5 - |board| and r = 50 - |board|.
C23_EachCompletionOnce ==
    /\ [](calcPc \in { "some", "none" } =>
            Len(leaf_boards) = Binomial(CardCOUNT - 2 - count(arg_community_cards),
                                        5 - count(arg_community_cards)))
    /\ [][leaf_boards' # leaf_boards =>
            LET board == leaf_boards'[Len(leaf_boards')]
            IN  /\ count(board) = 5
                /\ arg_community_cards \subseteq board
                /\ board \cap hero_cards = {}
                /\ board \notin { leaf_boards[i] : i \in DOMAIN leaf_boards }]_vars

\* C23 witness: in the enumeration for a flop (47 cards available, 2 missing)
\* the player stage was reached 47 times, once with each of the 46 partners of
\* the first card and once with the second card and its first partner
C23_Witness ==
    /\ calcPc = "run"
    /\ count(arg_community_cards) = 3
    /\ Len(leaf_boards) = 47
    /\ Cardinality({ leaf_boards[i] : i \in DOMAIN leaf_boards }) = 47
----------------------------------------------------------------------------
(* C24 *)

\* the calls of players on the stack, outermost first
PlayerFrames(stack) == SelectSeq(stack, LAMBDA frame : frame.fn = "players")

\* the cards of the hand a call of players has passed on to the next level or
\* to the showdown
FrameHand(frame) ==
    CardsOfHand(for_each_hand(villain_ranges[player_index(frame) + 1])[frame.next - 1])

\* C24: the known cards a call of players for villain i captured on entry are
\* exactly hero, board and the hands the calls for the villains before i are
\* working on, whatever the field known_cards holds by now; and at every
\* showdown the hero's cards, the five board cards and the hands of all n
\* villains are pairwise disjoint, 5 + 2 (n + 1) cards, which the field
\* known_cards then holds.
C24_ShowdownCardsDisjoint ==
    /\ [](LET stack == PlayerFrames(frames)
          IN  \A k \in DOMAIN stack :
                /\ player_index(stack[k]) = k - 1
                /\ stack[k].cards =
                      hero_cards \cup community_cards
                          \cup UNION { FrameHand(stack[q]) : q \in 1 .. (k - 1) })
    /\ [][total' # total =>
            LET stack == PlayerFrames(frames')
                n == Len(villain_ranges)
                hands == [ k \in DOMAIN stack |-> FrameHand(stack[k]) ]
            IN  /\ Len(stack) = n
                /\ Cardinality(community_cards) = 5 /\ Cardinality(hero_cards) = 2
                /\ community_cards \cap hero_cards = {}
                /\ \A k \in 1 .. n :
                      /\ Cardinality(hands[k]) = 2
                      /\ hands[k] \cap (community_cards \cup hero_cards) = {}
                      /\ \A q \in 1 .. (k - 1) : hands[k] \cap hands[q] = {}
                /\ known_cards' =
                      hero_cards \cup community_cards \cup UNION { hands[k] : k \in 1 .. n }
                /\ count(known_cards') = 5 + 2 * (n + 1)]_vars

\* C24 witness: two villains after a showdown, the first villain on its third
\* hand or a later one, so that the showdowns of its earlier hands wrote other
\* cards to known_cards
C24_Witness ==
    /\ calcPc = "run" /\ total >= 2
    /\ Len(villain_ranges) = 2
    /\ Len(PlayerFrames(frames)) = 2
    /\ PlayerFrames(frames)[1].next >= 4
    /\ PlayerFrames(frames)[2].next >= 2
    /\ count(known_cards) = 11
    /\ known_cards = PlayerFrames(frames)[2].cards \cup FrameHand(PlayerFrames(frames)[2])

----------------------------------------------------------------------------
(* C25 *)

\* C25: the score table changes in one way only, from None to Some by a call
\* of init_score_map that does not panic; init_score_map on an initialized
\* table panics and leaves the table as it is; score_fast on the table before
\* its initialization panics and reads no score.
C25_SingleTransition ==
    /\ [][CARDS_SCORE_MAP' # CARDS_SCORE_MAP =>
            /\ ~ CARDS_SCORE_MAP.some /\ CARDS_SCORE_MAP'.some
            /\ table_op' = "init_score_map" /\ ~ table_panic']_vars
    /\ [][CARDS_SCORE_MAP.some /\ table_op' = "init_score_map" =>
            table_panic' /\ CARDS_SCORE_MAP' = CARDS_SCORE_MAP]_vars
    /\ [][~ CARDS_SCORE_MAP.some /\ table_op' = "score_fast" =>
            table_panic' /\ table_score' = table_score]_vars

\* C25 witness: init_score_map was called on the initialized table after a
\* lookup: it panicked and the table is in place
C25_Witness ==
    /\ table_op = "init_score_map" /\ table_panic
    /\ CARDS_SCORE_MAP.some
    /\ CARDS_SCORE_MAP.map = init_score_map_built.map
    /\ table_score # ScoreZERO


----------------------------------------------------------------------------
(* C26: for every card set of at most 7 cards, the key counts_n_fast
   returns is the key counts_n builds from the per-rank counts: nibble r
   holds the number of cards of rank r, at most 4, and every partial sum
   over the suit lanes is itself the exact count key of the lanes summed so
   far, so no carry crosses a nibble boundary. *)
C26_FastKeyIsCountKey ==
    keyPc = 1 =>
        /\ Cardinality(key_cards) <= 7
        /\ key_n = counts_n(counts(key_cards))
        /\ \A index \in RANKS :
              /\ counts(key_cards)[index] <= 4
              /\ { b \in 0 .. 3 : (4 * index + b) \in key_n }
                   = { b \in 0 .. 3 : (counts(key_cards)[index] \div (2 ^ b)) % 2 = 1 }
        /\ \A suite \in 0 .. SuiteCOUNT :
              counts_n_fast_from(key_cards, suite)
                  = counts_n(counts({ c \in key_cards : Card_suite(c) >= suite }))

C26_Witness ==
    /\ keyPc = 1
    /\ Cardinality(key_cards) = 7
    /\ \E index \in RANKS : counts(key_cards)[index] = 4
    /\ \E index \in RANKS : counts(key_cards)[index] = 1

----------------------------------------------------------------------------
(* C27: for every card set of 5, 6 or 7 cards score_fast (table lookup and
   flush handling) returns the score of top5 (direct classification); when
   some suit holds at least 5 of the cards, the category of the table entry
   is neither FullHouse nor FourOfAKind, so the flush branch of score_fast
   replaces no stronger hand. *)
C27_FastScoreIsTop5Score ==
    evalPc = 1 =>
        /\ count(handA) \in 5 .. 7
        /\ scoreA = Top5_to_score(topA)
        /\ (\E suite \in 0 .. (SuiteCOUNT - 1) :
                Cardinality({ c \in handA : Card_suite(c) = suite }) >= 5)
             => /\ is_flush(handA)
                /\ Score_category(cards_score_map(counts_n_fast(handA)))
                       \notin {FullHouse(0, 0).tag, FourOfAKind(0).tag}
                /\ Score_category(scoreA)
                       \in {Flush.tag, StraightFlush.tag, RoyalFlush.tag}

\* C27 witness: a card set of 7 cards with five of one suit and three of one
\* rank, evaluated
C27_Witness ==
    /\ evalPc = 1
    /\ count(handA) = 7
    /\ is_flush(handA)
    /\ \E index \in RANKS : counts(handA)[index] = 3
    /\ Score_category(scoreA) = Flush.tag
    /\ scoreA = Top5_to_score(topA)

----------------------------------------------------------------------------
\* the keys of all vectors of per-rank counts over the ranks the build runs
\* through, each count in 0..4 and the sum in 5..7
count_vector_keys ==
    LET built_ranks == (RankCOUNT - MapRanks) .. (RankCOUNT - 1)
        vectors == { v \in [ built_ranks -> 0 .. 4 ] :
                        SumCounts([ index \in RANKS |->
                                      IF index \in built_ranks THEN v[index] ELSE 0 ], 0)
                            \in 5 .. 7 }
    IN  { UNION { BitsAt(v[index], index * 4) : index \in built_ranks } : v \in vectors }

\* the map init_score_map builds: no assertion failed, one insert per key,
\* the keys are those of the count vectors and each entry is the score of
\* Score::from_counts for the counts its key packs
score_map_is_exact ==
    /\ init_score_map_built.ok
    /\ init_score_map_built.inserts = Cardinality(DOMAIN init_score_map_built.map)
    /\ DOMAIN init_score_map_built.map = count_vector_keys
    /\ \A key \in DOMAIN init_score_map_built.map :
          /\ score_map_has(key)
          /\ init_score_map_built.map[key] = cards_score_map(key)
          /\ Score_category(init_score_map_built.map[key])
                 \notin {Flush.tag, StraightFlush.tag, RoyalFlush.tag}

(* C28: after init_score_map the table holds exactly one entry for every
   vector of per-rank counts with each count in 0..4 and sum in 5..7 and no
   other key; the build inserts no key twice and trips no assertion of
   from_counts; the lookup of score_fast finds an entry for every card set
   of 5 to 7 cards. *)
C28_TableHoldsEveryCountVector ==
    /\ table_op = "init_score_map" /\ ~ table_panic => CARDS_SCORE_MAP.some
    /\ CARDS_SCORE_MAP.some =>
          /\ score_map_is_exact
          /\ CARDS_SCORE_MAP.map = init_score_map_built.map
          /\ counts_n_fast(table_cards) \in DOMAIN CARDS_SCORE_MAP.map
          /\ table_op = "score_fast" =>
                /\ ~ table_panic
                /\ table_score = CARDS_SCORE_MAP.map[counts_n_fast(table_cards)]

\* C28 witness: a lookup of a card set of 7 cards with four of one rank in
\* the table init_score_map built
C28_Witness ==
    /\ CARDS_SCORE_MAP.some /\ table_op = "score_fast" /\ ~ table_panic
    /\ count(table_cards) = 7
    /\ \E index \in RANKS : counts(table_cards)[index] = 4
    /\ Score_category(table_score) = FourOfAKind(0).tag

----------------------------------------------------------------------------
(* C29: in simulate with input accepted by check_input every draw of every
   round returns a card.  After the reset at the start of a round the live
   length is 50 - |board|; the round draws at most 5 - |board| + 2 * villains
   cards, which is never more (for every board of at most 5 cards and 1 to 8
   villains); the cards dealt in a round are distinct and none of them is a
   card of the board or of the hero. *)
C29_RoundDrawsNeverRunOut ==
    /\ \A board \in 0 .. 5 : \A villains \in 1 .. 8 :
          (CardCOUNT - 2) - board >= (5 - board) + 2 * villains
    /\ calcPc \in { "sim_loop", "sim_some", "sim_none" } =>
          LET dealt == { deck.cards[j] : j \in (deck.len + 1) .. deck.max_len }
              board_draws == 5 - count(arg_community_cards)
          IN  /\ check_input(arg_community_cards, hero_cards, villain_ranges)
              /\ deck.max_len = (CardCOUNT - 2) - count(arg_community_cards)
              /\ sim_draws <= deck.max_len
              /\ RoundDraws(deck) <= sim_draws
              /\ deck.len >= deck.max_len - sim_draws /\ deck.len >= 1
              /\ Cardinality(dealt) = RoundDraws(deck)
              /\ dealt \cap BitOr(arg_community_cards, hero_cards) = {}
              /\ round > 0 =>
                    /\ RoundDraws(deck) >= board_draws + 2
                    /\ (RoundDraws(deck) - board_draws) % 2 = 0
                    /\ count(community_cards) = 5
                    /\ community_cards = arg_community_cards \cup
                          { deck.cards[j] :
                              j \in (deck.max_len - board_draws + 1) .. deck.max_len }

\* C29 witness: the second round of a call drew a board card and the hand of
\* the villain from the deck the first round had drawn from
C29_Witness ==
    /\ calcPc = "sim_loop" /\ round = 2
    /\ count(arg_community_cards) = 4
    /\ RoundDraws(deck) = sim_draws /\ sim_draws = 3
    /\ deck.cards \notin ShuffleOutcomes(
                            Deck_unknown_cards(BitOr(arg_community_cards, hero_cards)))

----------------------------------------------------------------------------
\* a * remaining * (remaining - 1) * ... over n factors, in the integers
RECURSIVE whole_falling_product(_, _, _)
whole_falling_product(a, remaining_cards, n) ==
    IF n = 0 THEN a
    ELSE whole_falling_product(Big_mul(a, remaining_cards), remaining_cards - 1, n - 1)

\* for every board size and number of villains check_input accepts, the two
\* loops of total_combos_upper_bound multiply by factors that stay positive
\* and max_count stays below 2^128
bound_loops_are_exact ==
    \A board \in 0 .. 5 : \A villains \in 1 .. 8 :
        LET remaining_cards == CardCOUNT - board - 2
            factors == (5 - board) + 2 * villains
            whole == whole_falling_product(BigOf(1), remaining_cards, factors)
        IN  /\ remaining_cards - factors >= 0
            /\ ~ exceeds_u128(whole)
            /\ falling_product(BigOf(1), remaining_cards, factors) = whole

\* the bounds of the calls
call_bounds ==
    [ n \in DOMAIN Calls |->
        total_combos_upper_bound(Calls[n].community, Calls[n].ranges) ]

(* C30: for every input check_input accepts, total_combos_upper_bound is at
   least the number of leaves calc traverses, so once calc is past its
   pre-flight check the bound fits u64 and total and every wins counter stay
   at or below it; the loops of the bound never overflow u128 in max_count
   and never take remaining_cards below zero. *)
C30_BoundCoversLeaves ==
    /\ bound_loops_are_exact
    /\ calcPc \in { "run", "some", "none" } =>
          \A n \in DOMAIN Calls :
              (/\ Calls[n].community = arg_community_cards
               /\ Calls[n].hero = hero_cards
               /\ Calls[n].ranges = villain_ranges)
              => LET leaves == [ i \in 1 .. Limbs |->
                                   CASE i = 1 -> total % LimbBase
                                     [] i = 2 -> (total \div LimbBase) % LimbBase
                                     [] i = 3 -> total \div (LimbBase * LimbBase)
                                     [] OTHER -> 0 ]
                 IN  /\ check_input(arg_community_cards, hero_cards, villain_ranges)
                     /\ ~ exceeds_u64(call_bounds[n])
                     /\ ~ Big_lt(call_bounds[n], leaves)
                     /\ \A i \in DOMAIN wins : wins[i] <= total

\* C30 witness: calc returned from a call with a card of the board to come
\* and two villains, having counted leaves
C30_Witness ==
    /\ calcPc = "some"
    /\ count(arg_community_cards) = 4
    /\ Len(villain_ranges) = 2
    /\ total > 5
    /\ ~ Big_lt(total_combos_upper_bound(arg_community_cards, villain_ranges),
                BigOf(total))

====
